---- MODULE Spec2Model ----
(***************************************************************************)
(* Aggregatable DKG (kobigurk/aggregatable-dkg): PVSS shares, their        *)
(* verification, weighted transcript aggregation and per-node decryption.  *)
(*                                                                         *)
(* Algebra.  The pairing engine is modelled by a prime field Fr = Z_p and  *)
(* the groups G1, G2, GT by the discrete logarithms of their elements, so  *)
(* scalar multiplication is multiplication mod p, the group law is         *)
(* addition mod p and the pairing e(a, b) is a * b mod p (GT written       *)
(* additively, its unit is 0).  The hash of a message into a group is a    *)
(* random oracle: the points H(m) of distinct messages are independent     *)
(* generators, so a BLS signature k * H(m) is kept as the pair (m, k).     *)
(***************************************************************************)
EXTENDS Integers, Sequences, FiniteSets, Bags, TLC

\* ---------------------------------------------------------------- bounds
MaxN == 2          \* largest roster
MaxDegree == 1     \* largest polynomial degree of a config
MaxSeed == 3       \* rng streams a caller may hand to share()
MaxWire == 2       \* distinct shares that are dealt during one run
MaxRecv == 2       \* messages that one instance accepts during one run
MaxInstances == 1  \* instances that receive during one run

\* ------------------------------------------------- the scalar field E::Fr
FieldModulus == 5
TwoAdicity == 2
TwoAdicRoot == 2

Fr == 0 .. (FieldModulus - 1)

FAdd(a, b) == (a + b) % FieldModulus
FSub(a, b) == (a + FieldModulus - (b % FieldModulus)) % FieldModulus
FNeg(a) == (FieldModulus - (a % FieldModulus)) % FieldModulus
FMul(a, b) == (a * b) % FieldModulus

RECURSIVE FPow(_, _)
FPow(a, k) == IF k = 0 THEN 1 ELSE FMul(a, FPow(a, k - 1))

\* Field::inverse: None for zero (callers unwrap it)
FInv(a) == FPow(a, FieldModulus - 2)

RECURSIVE FSum(_, _)
\* sum of s[i] over i \in 1..k of a sequence of field elements
FSum(s, k) == IF k = 0 THEN 0 ELSE FAdd(s[k], FSum(s, k - 1))

Min(a, b) == IF a < b THEN a ELSE b

\* -------------------------------------------------- groups and the pairing
\* generators of the SRS and of the config, as discrete logarithms
G_G1 == 2
H_G2 == 3
U_1 == 4

GMul(point, scalar) == FMul(point, scalar)
GAdd(p, q) == FAdd(p, q)
GNeg(p) == FNeg(p)
Pairing(p1, q2) == FMul(p1, q2)

\* VariableBaseMSM::multi_scalar_mul zips bases with scalars: the longer
\* list is cut to the shorter one
MultiScalarMul(bases, scalars) ==
    LET k == Min(Len(bases), Len(scalars))
    IN  FSum([i \in 1 .. k |-> GMul(bases[i], scalars[i])], k)

\* ------------------------------------------------ radix-2 evaluation domain
RECURSIVE NextPow2From(_, _)
NextPow2From(n, c) == IF c >= n THEN c ELSE NextPow2From(n, 2 * c)
NextPowerOfTwo(n) == NextPow2From(n, 1)

RECURSIVE Log2(_)
Log2(size) == IF size <= 1 THEN 0 ELSE 1 + Log2(size \div 2)

\* Radix2EvaluationDomain::new(num_coeffs): the size is the next power of
\* two, None when the field has no subgroup of that size
DomainSize(num_coeffs) == NextPowerOfTwo(num_coeffs)
DomainExists(num_coeffs) == Log2(DomainSize(num_coeffs)) <= TwoAdicity
GroupGen(size) == FPow(TwoAdicRoot, (2 ^ TwoAdicity) \div size)

\* domain.fft(coeffs): the coefficient vector is resized to the domain size
\* (cut or zero-padded), then evaluated at the powers of the group generator
Fft(size, coeffs) ==
    LET w == GroupGen(size)
        k == Min(Len(coeffs), size)
    IN  [j \in 1 .. size |->
            FSum([i \in 1 .. k |-> FMul(coeffs[i], FPow(w, (j - 1) * (i - 1)))], k)]

RECURSIVE FProd(_, _)
FProd(s, k) == IF k = 0 THEN 1 ELSE FMul(s[k], FProd(s, k - 1))

\* domain.evaluate_all_lagrange_coefficients(tau)
LagrangeCoefficients(size, tau) ==
    LET w == GroupGen(size)
        pt(j) == FPow(w, j - 1)
        L(j) == FProd([m \in 1 .. size |->
                        IF m = j THEN 1
                        ELSE FMul(FSub(tau, pt(m)), FInv(FSub(pt(j), pt(m))))], size)
    IN  [j \in 1 .. size |-> L(j)]

\* --------------------------------------------------------------- the state
VARIABLES
    scheme,            \* the signature scheme the DKG is instantiated with
    num_participants,  \* Config: the roster size n
    degree,            \* Config: the degree t
    participants,      \* per instance: the roster, id -> Participant
    transcript,        \* per instance: the aggregator's DKGTranscript
    dealer,            \* per node: the Dealer (key, accumulated secret, state)
    dealt,             \* the shares that share() has returned so far
    active,            \* the instances that receive messages in this run
    accepted,          \* per instance: the messages it has folded in, in order
    panicked,          \* the instances whose last call panicked
    last,              \* the most recent receive call and what it returned
    pending            \* the deliveries of dealt shares still owed to nodes

vars == << scheme, num_participants, degree, participants, transcript, dealer,
           dealt, active, accepted, panicked, last, pending >>

\* instances: node i for each roster id i, and one stand-alone aggregator
Nodes == 0 .. (num_participants - 1)
Aggregator == num_participants
Instances == 0 .. num_participants
Roster == 0 .. (num_participants - 1)

Ok == << "Ok" >>
Panic == << "Panic" >>
Err(kind) == << "Err", kind >>
ErrId(kind, id) == << "Err", kind, id >>
IsOk(result) == result = Ok

\* ----------------------------------------------------- canonical encoding
\* CanonicalSerialize of a group element: a fixed-length little-endian
\* string of base-4 digits
Serialize(point) == << point % 4, point \div 4 >>

\* share.rs message_from_c_i
message_from_c_i(c_i) == Serialize(c_i)

\* hash_to_field over a byte string: a fixed, never-zero digest
HashToField(bytes) ==
    1 + (FSum([i \in 1 .. Len(bytes) |-> ((i + 1) * bytes[i]) % FieldModulus],
              Len(bytes)) % (FieldModulus - 1))

\* ------------------------------------------------------ signature schemes
\* generator of the public keys: srs.g_g1 for the PoK scheme (keys in G1),
\* srs.h_g2 for the participants' signatures (keys in G2)
GPublicKey(role) == IF role = "pok" THEN G_G1 ELSE H_G2

\* SignatureScheme::from_sk, the public key of a secret
FromSk(role, sk) == GMul(GPublicKey(role), sk)

\* BLS sign: hash_to_group(message) * sk, kept as (message, scalar)
BlsSign(sk, message) == [m |-> message, k |-> sk]

\* BLS verify that pairs the key with the message the signature was made on
BlsVerifyAnyMessage(role, public_key, message, signature) ==
    FSub(public_key, GMul(GPublicKey(role), signature.k)) = 0

\* BLS verify: e(pk, H(message)) * e(-g, signature) = 1.  The coefficient of
\* every independent generator H(.) must vanish
BlsVerify(role, public_key, message, signature) ==
    IF signature.m = message
    THEN FSub(public_key, GMul(GPublicKey(role), signature.k)) = 0
    ELSE public_key = 0 /\ GMul(GPublicKey(role), signature.k) = 0

\* Schnorr sign that answers with r = v + sk * h
SchnorrSignPlus(role, sk, message, v) ==
    LET v_g == GMul(GPublicKey(role), v)
        hashed_message == HashToField(message \o Serialize(v_g)
                                              \o Serialize(GPublicKey(role)))
    IN  [v_g |-> v_g, r |-> FAdd(v, FMul(sk, hashed_message))]

\* Schnorr sign with nonce v drawn from the rng
SchnorrSign(role, sk, message, v) ==
    LET v_g == GMul(GPublicKey(role), v)
        hashed_message == HashToField(message \o Serialize(v_g)
                                              \o Serialize(GPublicKey(role)))
    IN  [v_g |-> v_g, r |-> FSub(v, FMul(sk, hashed_message))]

\* Schnorr verify: g * r + pk * h = V
SchnorrVerify(role, public_key, message, signature) ==
    LET hashed_message == HashToField(message \o Serialize(signature.v_g)
                                              \o Serialize(GPublicKey(role)))
    IN  GAdd(GMul(GPublicKey(role), signature.r), GMul(public_key, hashed_message))
            = signature.v_g

Sign(role, sk, message, v) ==
    IF scheme = "BLS" THEN BlsSign(sk, message)
    ELSE SchnorrSign(role, sk, message, v)

Verify(role, public_key, message, signature) ==
    IF scheme = "BLS" THEN BlsVerify(role, public_key, message, signature)
    ELSE SchnorrVerify(role, public_key, message, signature)

\* AggregatableSignatureScheme::aggregate_public_keys: the sum of the keys,
\* folded from the identity
BlsAggregatePublicKeys(public_keys) ==
    FSum([i \in 1 .. Len(public_keys) |-> public_keys[i]], Len(public_keys))

\* the sum of two signatures that are multiples of one H(message), or of
\* which one is the identity
BlsSignatureAdd(a, b) ==
    CASE a.k = 0 -> b
      [] b.k = 0 -> a
      [] a.m = b.m -> [m |-> a.m, k |-> FAdd(a.k, b.k)]

\* aggregate_signatures that returns the first signature
BlsAggregateSignaturesFirst(signatures) == signatures[1]

\* AggregatableSignatureScheme::aggregate_signatures: the sum of the
\* signatures, folded from the identity
RECURSIVE BlsAggregateSignatures(_)
BlsAggregateSignatures(signatures) ==
    IF signatures = << >>
    THEN [m |-> << >>, k |-> 0]
    ELSE BlsSignatureAdd(BlsAggregateSignatures(SubSeq(signatures, 1,
                                                       Len(signatures) - 1)),
                         signatures[Len(signatures)])

\* BLS batch_verify: the pairs of entry i are raised to alpha^(i-1) and one
\* product of pairings is compared with 1
BlsBatchVerify(role, alpha, public_keys, messages, signatures) ==
    LET k == Len(public_keys)
        bases == {messages[i] : i \in 1 .. k} \cup {signatures[i].m : i \in 1 .. k}
        coeff(b) == FSum([i \in 1 .. k |->
                        FMul(FPow(alpha, i - 1),
                             FSub(IF messages[i] = b THEN public_keys[i] ELSE 0,
                                  IF signatures[i].m = b
                                  THEN GMul(GPublicKey(role), signatures[i].k)
                                  ELSE 0))], k)
    IN  \A b \in bases : coeff(b) = 0

\* Schnorr batch_verify that looks at the first entry only
SchnorrBatchVerifyFirstOnly(role, alpha, public_keys, messages, signatures) ==
    Len(public_keys) >= 1 =>
        SchnorrVerify(role, public_keys[1], messages[1], signatures[1])

\* Schnorr batch_verify: one multi-scalar multiplication must be zero
SchnorrBatchVerify(role, alpha, public_keys, messages, signatures) ==
    LET k == Len(public_keys)
        hm(i) == HashToField(messages[i] \o Serialize(signatures[i].v_g)
                                         \o Serialize(GPublicKey(role)))
        bases == [j \in 1 .. 3 * k |->
                    LET i == (j + 2) \div 3
                    IN  CASE j % 3 = 1 -> GPublicKey(role)
                          [] j % 3 = 2 -> public_keys[i]
                          [] OTHER -> signatures[i].v_g]
        scalars == [j \in 1 .. 3 * k |->
                    LET i == (j + 2) \div 3
                        current_alpha == FPow(alpha, i - 1)
                    IN  CASE j % 3 = 1 -> FMul(signatures[i].r, current_alpha)
                          [] j % 3 = 2 -> FMul(hm(i), current_alpha)
                          [] OTHER -> FNeg(current_alpha)]
    IN  MultiScalarMul(bases, scalars) = 0

\* batch_verify that reports the lengths as (messages, public keys, signatures)
BatchVerifyLengthsSwapped(role, alpha, public_keys, messages, signatures) ==
    IF Len(public_keys) # Len(messages) \/ Len(public_keys) # Len(signatures)
    THEN << "Err", "BatchVerification", Len(messages), Len(public_keys), Len(signatures) >>
    ELSE IF scheme = "BLS"
         THEN IF BlsBatchVerify(role, alpha, public_keys, messages, signatures)
              THEN Ok ELSE Err("BLSVerify")
         ELSE IF SchnorrBatchVerify(role, alpha, public_keys, messages, signatures)
              THEN Ok ELSE Err("SchnorrVerify")

\* BatchVerifiableSignatureScheme::batch_verify
BatchVerify(role, alpha, public_keys, messages, signatures) ==
    IF Len(public_keys) # Len(messages) \/ Len(public_keys) # Len(signatures)
    THEN << "Err", "BatchVerification", Len(public_keys), Len(messages), Len(signatures) >>
    ELSE IF scheme = "BLS"
         THEN IF BlsBatchVerify(role, alpha, public_keys, messages, signatures)
              THEN Ok ELSE Err("BLSVerify")
         ELSE IF SchnorrBatchVerify(role, alpha, public_keys, messages, signatures)
              THEN Ok ELSE Err("SchnorrVerify")

\* ------------------------------------------------------ roster and rng
\* the signing secret generate_keypair gave participant id (never zero)
PrivateKeySig(id) == 2 + (id % (FieldModulus - 2))
PublicKeySig(id) == FromSk("sig", PrivateKeySig(id))

\* the caller's rng: stream number seed, k-th Fr::rand draw (k = 0, 1, ...).
\* Streams 1 and 2 agree on the first draw and differ afterwards
Rand(seed, k) ==
    IF k = 0 THEN 1 + (((seed - 1) \div 2) % (FieldModulus - 1))
    ELSE 1 + ((seed + k) % (FieldModulus - 1))

Seeds == 1 .. MaxSeed

\* ------------------------------------------------------------ PVSS share
\* PVSSShare::empty
PVSSShareEmpty(deg, n) ==
    [f_i |-> [k \in 1 .. deg + 1 |-> 0],
     u_i_2 |-> 0,
     a_i |-> [k \in 1 .. n |-> 0],
     y_i |-> [k \in 1 .. n |-> 0]]

\* iter().zip(..).map(|(x, y)| x + y): as long as the shorter sequence
ZipAdd(xs, ys) == [k \in 1 .. Min(Len(xs), Len(ys)) |-> GAdd(xs[k], ys[k])]

\* PVSSShare::aggregate with other added twice
PVSSShareAggregateDoubleOther(self, other) ==
    [f_i |-> ZipAdd(ZipAdd(self.f_i, other.f_i), other.f_i),
     u_i_2 |-> GAdd(GAdd(self.u_i_2, other.u_i_2), other.u_i_2),
     a_i |-> ZipAdd(ZipAdd(self.a_i, other.a_i), other.a_i),
     y_i |-> ZipAdd(ZipAdd(self.y_i, other.y_i), other.y_i)]

\* PVSSShare::aggregate that keeps the u_i_2 of self
PVSSShareAggregateKeepSelf(self, other) ==
    [f_i |-> ZipAdd(self.f_i, other.f_i),
     u_i_2 |-> self.u_i_2,
     a_i |-> ZipAdd(self.a_i, other.a_i),
     y_i |-> ZipAdd(self.y_i, other.y_i)]

\* PVSSShare::aggregate
PVSSShareAggregate(self, other) ==
    [f_i |-> ZipAdd(self.f_i, other.f_i),
     u_i_2 |-> GAdd(self.u_i_2, other.u_i_2),
     a_i |-> ZipAdd(self.a_i, other.a_i),
     y_i |-> ZipAdd(self.y_i, other.y_i)]

\* Node::share_pvss of node me with rng stream seed
SharePvss(me, seed) ==
    LET f == [k \in 1 .. degree + 1 |-> Rand(seed, k - 1)]
        size == DomainSize(num_participants)
        y_eval_i == Fft(size, f)
    IN  IF ~DomainExists(num_participants)
        THEN [result |-> Err("EvaluationDomainError")]
        ELSE IF size > num_participants
        THEN [result |-> ErrId("InvalidParticipantId", num_participants)]
        ELSE [result |-> Ok,
              pvss_share |->
                 [f_i |-> [k \in 1 .. degree |-> GMul(G_G1, f[k + 1])],
                  u_i_2 |-> GMul(U_1, f[1]),
                  a_i |-> [j \in 1 .. size |-> GMul(G_G1, y_eval_i[j])],
                  y_i |-> [j \in 1 .. size |-> GMul(PublicKeySig(j - 1), y_eval_i[j])]],
              secrets |-> [f_0 |-> f[1], my_secret |-> GMul(H_G2, y_eval_i[me + 1])]]

\* Node::share that labels the share with the id of the next participant
ShareAsNextParticipant(me, seed) ==
    LET pvss == SharePvss(me, seed)
    IN  IF ~IsOk(pvss.result) THEN [result |-> pvss.result]
        ELSE LET c_i == GMul(G_G1, pvss.secrets.f_0)
             IN  [result |-> Ok,
                  share |->
                     [participant_id |-> (me + 1) % (num_participants + 1),
                      c_i |-> c_i,
                      pvss_share |-> pvss.pvss_share,
                      c_i_pok |-> Sign("pok", pvss.secrets.f_0, message_from_c_i(c_i),
                                       Rand(seed, degree + 1)),
                      signature_on_c_i |-> Sign("sig", PrivateKeySig(me),
                                                message_from_c_i(c_i),
                                                Rand(seed, degree + 2))]]

\* Node::share: the DKGShare, or the error of share_pvss
Share(me, seed) ==
    LET pvss == SharePvss(me, seed)
    IN  IF ~IsOk(pvss.result) THEN [result |-> pvss.result]
        ELSE LET c_i == GMul(G_G1, pvss.secrets.f_0)
             IN  [result |-> Ok,
                  share |->
                     [participant_id |-> me,
                      c_i |-> c_i,
                      pvss_share |-> pvss.pvss_share,
                      c_i_pok |-> Sign("pok", pvss.secrets.f_0, message_from_c_i(c_i),
                                       Rand(seed, degree + 1)),
                      signature_on_c_i |-> Sign("sig", PrivateKeySig(me),
                                                message_from_c_i(c_i),
                                                Rand(seed, degree + 2))]]

\* pvss_share_verify with the powers (-1, alpha, alpha^2, ...) in the degree check
PvssShareVerifyPositivePowers(alpha, c_i, share) ==
    IF ~DomainExists(num_participants) THEN Err("EvaluationDomainError")
    ELSE
    LET lagrange_coefficients ==
            LagrangeCoefficients(DomainSize(num_participants), alpha)
        neg_powers == [k \in 1 .. degree + 1 |->
                          IF k = 1 THEN FNeg(1) ELSE FPow(alpha, k - 1)]
        bases == share.a_i \o << c_i >> \o share.f_i
        scalars == lagrange_coefficients \o neg_powers
        product == MultiScalarMul(bases, scalars)
        zipped == Min(Min(Len(share.a_i), num_participants + 1), Len(share.y_i))
        encrypted == FSum([j \in 1 .. zipped |->
                        FAdd(Pairing(GMul(GNeg(G_G1), FPow(alpha, j - 1)), share.y_i[j]),
                             Pairing(GMul(share.a_i[j], FPow(alpha, j - 1)),
                                     PublicKeySig(j - 1)))], zipped)
    IN  IF product # 0 THEN ErrId("EvaluationsCheckError", product)
        ELSE IF FAdd(Pairing(c_i, U_1), Pairing(GNeg(G_G1), share.u_i_2)) # 0
        THEN Err("RatioIncorrect")
        ELSE IF zipped > num_participants
        THEN ErrId("InvalidParticipantId", num_participants)
        ELSE IF encrypted # 0 THEN Err("RatioIncorrect")
        ELSE Ok

\* DKGAggregator::pvss_share_verify with challenge alpha
PvssShareVerify(alpha, c_i, share) ==
    IF ~DomainExists(num_participants) THEN Err("EvaluationDomainError")
    ELSE
    LET lagrange_coefficients ==
            LagrangeCoefficients(DomainSize(num_participants), alpha)
        neg_powers == [k \in 1 .. degree + 1 |-> FNeg(FPow(alpha, k - 1))]
        bases == share.a_i \o << c_i >> \o share.f_i
        scalars == lagrange_coefficients \o neg_powers
        product == MultiScalarMul(bases, scalars)
        zipped == Min(Min(Len(share.a_i), num_participants + 1), Len(share.y_i))
        encrypted == FSum([j \in 1 .. zipped |->
                        FAdd(Pairing(GMul(GNeg(G_G1), FPow(alpha, j - 1)), share.y_i[j]),
                             Pairing(GMul(share.a_i[j], FPow(alpha, j - 1)),
                                     PublicKeySig(j - 1)))], zipped)
    IN  IF product # 0 THEN ErrId("EvaluationsCheckError", product)
        ELSE IF FAdd(Pairing(c_i, U_1), Pairing(GNeg(G_G1), share.u_i_2)) # 0
        THEN Err("RatioIncorrect")
        ELSE IF zipped > num_participants
        THEN ErrId("InvalidParticipantId", num_participants)
        ELSE IF encrypted # 0 THEN Err("RatioIncorrect")
        ELSE Ok

SignatureError == IF scheme = "BLS" THEN Err("BLSVerify") ELSE Err("SchnorrVerify")

\* share_verify with the check of signature_on_c_i left out
ShareVerifyNoSignature(alpha, share) ==
    IF share.participant_id \notin Roster
    THEN ErrId("InvalidParticipantId", share.participant_id)
    ELSE LET pvss == PvssShareVerify(alpha, share.c_i, share.pvss_share)
         IN  IF ~IsOk(pvss) THEN pvss
             ELSE IF ~Verify("pok", share.c_i, message_from_c_i(share.c_i), share.c_i_pok)
             THEN SignatureError
             ELSE Ok

\* share_verify with pvss_share_verify left out
ShareVerifySignaturesOnly(alpha, share) ==
    IF share.participant_id \notin Roster
    THEN ErrId("InvalidParticipantId", share.participant_id)
    ELSE IF ~Verify("sig", PublicKeySig(share.participant_id),
                    message_from_c_i(share.c_i), share.signature_on_c_i)
    THEN SignatureError
    ELSE IF ~Verify("pok", share.c_i, message_from_c_i(share.c_i), share.c_i_pok)
    THEN SignatureError
    ELSE Ok

\* share_verify that looks the participant up after pvss_share_verify
ShareVerifyRosterLater(alpha, share) ==
    LET pvss == PvssShareVerify(alpha, share.c_i, share.pvss_share)
    IN  IF ~IsOk(pvss) THEN pvss
        ELSE IF share.participant_id \notin Roster
        THEN ErrId("InvalidParticipantId", share.participant_id)
        ELSE IF ~Verify("sig", PublicKeySig(share.participant_id),
                        message_from_c_i(share.c_i), share.signature_on_c_i)
        THEN SignatureError
        ELSE IF ~Verify("pok", share.c_i, message_from_c_i(share.c_i), share.c_i_pok)
        THEN SignatureError
        ELSE Ok

\* DKGAggregator::share_verify
ShareVerify(alpha, share) ==
    IF share.participant_id \notin Roster
    THEN ErrId("InvalidParticipantId", share.participant_id)
    ELSE LET pvss == PvssShareVerify(alpha, share.c_i, share.pvss_share)
         IN  IF ~IsOk(pvss) THEN pvss
             ELSE IF ~Verify("sig", PublicKeySig(share.participant_id),
                             message_from_c_i(share.c_i), share.signature_on_c_i)
             THEN SignatureError
             ELSE IF ~Verify("pok", share.c_i, message_from_c_i(share.c_i), share.c_i_pok)
             THEN SignatureError
             ELSE Ok

\* ------------------------------------------------------------ transcript
\* DKGTranscript::empty
DKGTranscriptEmpty(deg, n) ==
    [degree |-> deg,
     num_participants |-> n,
     contributions |-> << >>,
     pvss_share |-> PVSSShareEmpty(deg, n)]

Ids(t) == DOMAIN t.contributions

\* Combine with the weights not added
CombineKeepWeight(self, other, i) ==
    IF i \in Ids(self) THEN self.contributions[i] ELSE other.contributions[i]

\* Combine with the PoK and the signature of other retained
CombineKeepOther(self, other, i) ==
    IF i \in Ids(self) /\ i \in Ids(other)
    THEN [c_i |-> self.contributions[i].c_i,
          weight |-> self.contributions[i].weight + other.contributions[i].weight,
          c_i_pok |-> other.contributions[i].c_i_pok,
          signature_on_c_i |-> other.contributions[i].signature_on_c_i]
    ELSE IF i \in Ids(self) THEN self.contributions[i]
    ELSE other.contributions[i]

\* Combine that carries the entry of other through when other holds the id
CombineOtherFirst(self, other, i) ==
    IF i \in Ids(other) THEN other.contributions[i] ELSE self.contributions[i]

\* the match of DKGTranscript::aggregate for one id present in a result
Combine(self, other, i) ==
    IF i \in Ids(self) /\ i \in Ids(other)
    THEN [c_i |-> self.contributions[i].c_i,
          weight |-> self.contributions[i].weight + other.contributions[i].weight,
          c_i_pok |-> self.contributions[i].c_i_pok,
          signature_on_c_i |-> self.contributions[i].signature_on_c_i]
    ELSE IF i \in Ids(self) THEN self.contributions[i]
    ELSE other.contributions[i]

\* Aggregate with the comparison of the commitments left out
AggregateNoCommitmentCheck(self, other) ==
    IF self.degree # other.degree \/ self.num_participants # other.num_participants
    THEN [result |-> << "Err", "TranscriptDifferentConfig", self.degree, other.degree,
                        self.num_participants, other.num_participants >>]
    ELSE [result |-> Ok,
          transcript |->
             [degree |-> self.degree,
              num_participants |-> self.num_participants,
              contributions |->
                 [i \in {j \in 0 .. (self.num_participants - 1) :
                            j \in Ids(self) \/ j \in Ids(other)}
                    |-> IF i \in Ids(self) THEN self.contributions[i]
                        ELSE other.contributions[i]],
              pvss_share |-> PVSSShareAggregate(self.pvss_share, other.pvss_share)]]

\* Aggregate that emits an entry only for the ids other holds
AggregateOtherIdsOnly(self, other) ==
    IF self.degree # other.degree \/ self.num_participants # other.num_participants
    THEN [result |-> << "Err", "TranscriptDifferentConfig", self.degree, other.degree,
                        self.num_participants, other.num_participants >>]
    ELSE IF \E i \in 0 .. (self.num_participants - 1) :
                /\ i \in Ids(self) /\ i \in Ids(other)
                /\ self.contributions[i].c_i # other.contributions[i].c_i
    THEN [result |-> Err("TranscriptDifferentCommitments")]
    ELSE [result |-> Ok,
          transcript |->
             [degree |-> self.degree,
              num_participants |-> self.num_participants,
              contributions |->
                 [i \in {j \in 0 .. (self.num_participants - 1) : j \in Ids(other)}
                    |-> Combine(self, other, i)],
              pvss_share |-> PVSSShareAggregate(self.pvss_share, other.pvss_share)]]

\* Aggregate that compares the commitments before the configurations
AggregateCommitmentsFirst(self, other) ==
    IF \E i \in 0 .. (self.num_participants - 1) :
                /\ i \in Ids(self) /\ i \in Ids(other)
                /\ self.contributions[i].c_i # other.contributions[i].c_i
    THEN [result |-> Err("TranscriptDifferentCommitments")]
    ELSE IF self.degree # other.degree \/ self.num_participants # other.num_participants
    THEN [result |-> << "Err", "TranscriptDifferentConfig", self.degree, other.degree,
                        self.num_participants, other.num_participants >>]
    ELSE [result |-> Ok,
          transcript |->
             [degree |-> self.degree,
              num_participants |-> self.num_participants,
              contributions |->
                 [i \in {j \in 0 .. (self.num_participants - 1) :
                            j \in Ids(self) \/ j \in Ids(other)}
                    |-> Combine(self, other, i)],
              pvss_share |-> PVSSShareAggregate(self.pvss_share, other.pvss_share)]]

\* Aggregate that emits an entry for every id either side holds
AggregateAllIds(self, other) ==
    IF self.degree # other.degree \/ self.num_participants # other.num_participants
    THEN [result |-> << "Err", "TranscriptDifferentConfig", self.degree, other.degree,
                        self.num_participants, other.num_participants >>]
    ELSE IF \E i \in 0 .. (self.num_participants - 1) :
                /\ i \in Ids(self) /\ i \in Ids(other)
                /\ self.contributions[i].c_i # other.contributions[i].c_i
    THEN [result |-> Err("TranscriptDifferentCommitments")]
    ELSE [result |-> Ok,
          transcript |->
             [degree |-> self.degree,
              num_participants |-> self.num_participants,
              contributions |->
                 [i \in Ids(self) \cup Ids(other) |-> Combine(self, other, i)],
              pvss_share |-> PVSSShareAggregate(self.pvss_share, other.pvss_share)]]

\* DKGTranscript::aggregate: the result and, when Ok, the new transcript
Aggregate(self, other) ==
    IF self.degree # other.degree \/ self.num_participants # other.num_participants
    THEN [result |-> << "Err", "TranscriptDifferentConfig", self.degree, other.degree,
                        self.num_participants, other.num_participants >>]
    ELSE IF \E i \in 0 .. (self.num_participants - 1) :
                /\ i \in Ids(self) /\ i \in Ids(other)
                /\ self.contributions[i].c_i # other.contributions[i].c_i
    THEN [result |-> Err("TranscriptDifferentCommitments")]
    ELSE [result |-> Ok,
          transcript |->
             [degree |-> self.degree,
              num_participants |-> self.num_participants,
              contributions |->
                 [i \in {j \in 0 .. (self.num_participants - 1) :
                            j \in Ids(self) \/ j \in Ids(other)}
                    |-> Combine(self, other, i)],
              pvss_share |-> PVSSShareAggregate(self.pvss_share, other.pvss_share)]]

\* the singleton transcript receive_share builds from a share
Singleton(share) ==
    [degree |-> degree,
     num_participants |-> num_participants,
     contributions |->
        [i \in {share.participant_id} |->
            [c_i |-> share.c_i, weight |-> 1, c_i_pok |-> share.c_i_pok,
             signature_on_c_i |-> share.signature_on_c_i]],
     pvss_share |-> share.pvss_share]

\* receive_share that folds the share in before it verifies it
ReceiveShareFoldFirst(self, alpha, share) ==
    LET verified == ShareVerify(alpha, share)
        folded == Aggregate(self, Singleton(share))
    IN  IF ~IsOk(folded.result)
        THEN [verified |-> verified, result |-> folded.result, transcript |-> self]
        ELSE IF ~IsOk(verified)
        THEN [verified |-> verified, result |-> verified, transcript |-> folded.transcript]
        ELSE [verified |-> verified, result |-> Ok, transcript |-> folded.transcript]

\* receive_share that folds the share in without verifying it
ReceiveShareUnverified(self, alpha, share) ==
    LET folded == Aggregate(self, Singleton(share))
    IN  IF ~IsOk(folded.result)
        THEN [verified |-> Ok, result |-> folded.result, transcript |-> self]
        ELSE [verified |-> Ok, result |-> Ok, transcript |-> folded.transcript]

\* DKGAggregator::receive_share on an aggregator holding transcript self:
\* the result of share_verify, the result returned, the transcript afterwards
ReceiveShare(self, alpha, share) ==
    LET verified == ShareVerify(alpha, share)
        folded == Aggregate(self, Singleton(share))
    IN  IF ~IsOk(verified)
        THEN [verified |-> verified, result |-> verified, transcript |-> self]
        ELSE IF ~IsOk(folded.result)
        THEN [verified |-> verified, result |-> folded.result, transcript |-> self]
        ELSE [verified |-> verified, result |-> Ok, transcript |-> folded.transcript]

\* the ids of a transcript in BTreeMap order
RECURSIVE SortedIds(_)
SortedIds(ids) ==
    IF ids = {} THEN << >>
    ELSE LET least == CHOOSE i \in ids : \A j \in ids : i <= j
         IN  << least >> \o SortedIds(ids \ {least})

\* the sum of the c_i with the weights ignored
UnweightedCommitment(t) ==
    LET ids == SortedIds(Ids(t))
    IN  FSum([k \in 1 .. Len(ids) |-> t.contributions[ids[k]].c_i], Len(ids))

\* c = sum of c_i * weight over the contributions
WeightedCommitment(t) ==
    LET ids == SortedIds(Ids(t))
    IN  FSum([k \in 1 .. Len(ids) |->
                GMul(t.contributions[ids[k]].c_i,
                     t.contributions[ids[k]].weight % FieldModulus)], Len(ids))

\* receive_transcript that sums the c_i without their weights
ReceiveTranscriptUnweighted(alphas, t) ==
    LET ids == SortedIds(Ids(t))
        unknown == {i \in Ids(t) : i \notin Roster}
        msgs == [k \in 1 .. Len(ids) |-> message_from_c_i(t.contributions[ids[k]].c_i)]
        sig == BatchVerify("sig", alphas[1],
                   [k \in 1 .. Len(ids) |-> PublicKeySig(ids[k])], msgs,
                   [k \in 1 .. Len(ids) |-> t.contributions[ids[k]].signature_on_c_i])
        pok == BatchVerify("pok", alphas[2],
                   [k \in 1 .. Len(ids) |-> t.contributions[ids[k]].c_i], msgs,
                   [k \in 1 .. Len(ids) |-> t.contributions[ids[k]].c_i_pok])
    IN  IF unknown # {}
        THEN ErrId("InvalidParticipantId", CHOOSE i \in unknown : \A j \in unknown : i <= j)
        ELSE IF ~IsOk(sig) THEN sig
        ELSE IF ~IsOk(pok) THEN pok
        ELSE PvssShareVerify(alphas[3], WeightedCommitment(
                [t EXCEPT !.contributions =
                    [i \in DOMAIN @ |-> [@[i] EXCEPT !.weight = 1]]]), t.pvss_share)

\* DKGAggregator::receive_transcript with the three challenges drawn by the
\* two batch verifications and by pvss_share_verify; mutates nothing
ReceiveTranscript(alphas, t) ==
    LET ids == SortedIds(Ids(t))
        unknown == {i \in Ids(t) : i \notin Roster}
        msgs == [k \in 1 .. Len(ids) |-> message_from_c_i(t.contributions[ids[k]].c_i)]
        sig == BatchVerify("sig", alphas[1],
                   [k \in 1 .. Len(ids) |-> PublicKeySig(ids[k])], msgs,
                   [k \in 1 .. Len(ids) |-> t.contributions[ids[k]].signature_on_c_i])
        pok == BatchVerify("pok", alphas[2],
                   [k \in 1 .. Len(ids) |-> t.contributions[ids[k]].c_i], msgs,
                   [k \in 1 .. Len(ids) |-> t.contributions[ids[k]].c_i_pok])
    IN  IF unknown # {}
        THEN ErrId("InvalidParticipantId", CHOOSE i \in unknown : \A j \in unknown : i <= j)
        ELSE IF ~IsOk(sig) THEN sig
        ELSE IF ~IsOk(pok) THEN pok
        ELSE PvssShareVerify(alphas[3], WeightedCommitment(t), t.pvss_share)

\* receive_share_and_decrypt that leaves the roster as it is
ReceiveShareAndDecryptNoRoster(me, self, d, roster, alpha, share) ==
    LET inner == ReceiveShare(self, alpha, share)
        secret == GMul(share.pvss_share.y_i[me + 1], FInv(d.private_key_sig))
    IN  IF ~IsOk(inner.result)
        THEN [verified |-> inner.verified, inner |-> inner.result, result |-> Ok,
              transcript |-> self, dealer |-> d, participants |-> roster]
        ELSE IF me + 1 > Len(share.pvss_share.y_i)
        THEN [verified |-> inner.verified, inner |-> inner.result, result |-> Panic,
              transcript |-> inner.transcript, dealer |-> d, participants |-> roster]
        ELSE [verified |-> inner.verified, inner |-> inner.result, result |-> Ok,
              transcript |-> inner.transcript,
              dealer |-> [d EXCEPT !.accumulated_secret = GAdd(@, secret)],
              participants |-> roster]

\* receive_share_and_decrypt that adds y_i[my_id] as it is, not divided by sk
ReceiveShareAndDecryptNoInverse(me, self, d, roster, alpha, share) ==
    LET inner == ReceiveShare(self, alpha, share)
        secret == share.pvss_share.y_i[me + 1]
    IN  IF ~IsOk(inner.result)
        THEN [verified |-> inner.verified, inner |-> inner.result, result |-> Ok,
              transcript |-> self, dealer |-> d, participants |-> roster]
        ELSE IF me + 1 > Len(share.pvss_share.y_i)
        THEN [verified |-> inner.verified, inner |-> inner.result, result |-> Panic,
              transcript |-> inner.transcript, dealer |-> d, participants |-> roster]
        ELSE [verified |-> inner.verified, inner |-> inner.result, result |-> Ok,
              transcript |-> inner.transcript,
              dealer |-> [d EXCEPT !.accumulated_secret = GAdd(@, secret)],
              participants |->
                 [roster EXCEPT ![share.participant_id].state = "Verified"]]

\* ------------------------------------------------------------------ node
\* Node::receive_share_and_decrypt of node me holding transcript self and
\* dealer d: the inner result of aggregator.receive_share, the result
\* returned (Panic when y_i is indexed out of range), and the node afterwards
ReceiveShareAndDecrypt(me, self, d, roster, alpha, share) ==
    LET inner == ReceiveShare(self, alpha, share)
        secret == GMul(share.pvss_share.y_i[me + 1], FInv(d.private_key_sig))
    IN  IF ~IsOk(inner.result)
        THEN [verified |-> inner.verified, inner |-> inner.result, result |-> Ok,
              transcript |-> self, dealer |-> d, participants |-> roster]
        ELSE IF me + 1 > Len(share.pvss_share.y_i)
        THEN [verified |-> inner.verified, inner |-> inner.result, result |-> Panic,
              transcript |-> inner.transcript, dealer |-> d, participants |-> roster]
        ELSE [verified |-> inner.verified, inner |-> inner.result, result |-> Ok,
              transcript |-> inner.transcript,
              dealer |-> [d EXCEPT !.accumulated_secret = GAdd(@, secret)],
              participants |->
                 [roster EXCEPT ![share.participant_id].state = "Verified"]]

\* Node::receive_transcript_and_decrypt that decrypts seat 0 whatever my_id is
ReceiveTranscriptAndDecryptSeatZero(me, d, roster, alphas, t) ==
    LET verified == ReceiveTranscript(alphas, t)
        secret == GMul(t.pvss_share.y_i[1], FInv(d.private_key_sig))
    IN  IF ~IsOk(verified)
        THEN [result |-> verified, dealer |-> d, participants |-> roster]
        ELSE IF me + 1 > Len(t.pvss_share.y_i)
        THEN [result |-> Panic, dealer |-> d, participants |-> roster]
        ELSE [result |-> Ok,
              dealer |-> [d EXCEPT !.accumulated_secret = GAdd(@, secret)],
              participants |->
                 [id \in DOMAIN roster |->
                    IF id \in Ids(t) THEN [roster[id] EXCEPT !.state = "Verified"]
                    ELSE roster[id]]]

\* Node::receive_transcript_and_decrypt that decrypts and marks the roster
\* before it looks at the result of the verification
ReceiveTranscriptAndDecryptEager(me, d, roster, alphas, t) ==
    LET verified == ReceiveTranscript(alphas, t)
        secret == GMul(t.pvss_share.y_i[me + 1], FInv(d.private_key_sig))
    IN  IF me + 1 > Len(t.pvss_share.y_i)
        THEN [result |-> IF IsOk(verified) THEN Panic ELSE verified,
              dealer |-> d, participants |-> roster]
        ELSE [result |-> verified,
              dealer |-> [d EXCEPT !.accumulated_secret = GAdd(@, secret)],
              participants |->
                 [id \in DOMAIN roster |->
                    IF id \in Ids(t) THEN [roster[id] EXCEPT !.state = "Verified"]
                    ELSE roster[id]]]

\* Node::receive_transcript_and_decrypt that adds the seat only when the
\* transcript marks a roster entry that was not Verified yet
ReceiveTranscriptAndDecryptOnce(me, d, roster, alphas, t) ==
    LET verified == ReceiveTranscript(alphas, t)
        secret == GMul(t.pvss_share.y_i[me + 1], FInv(d.private_key_sig))
        fresh == \E id \in Ids(t) : roster[id].state # "Verified"
    IN  IF ~IsOk(verified)
        THEN [result |-> verified, dealer |-> d, participants |-> roster]
        ELSE IF me + 1 > Len(t.pvss_share.y_i)
        THEN [result |-> Panic, dealer |-> d, participants |-> roster]
        ELSE [result |-> Ok,
              dealer |-> IF fresh
                         THEN [d EXCEPT !.accumulated_secret = GAdd(@, secret)]
                         ELSE d,
              participants |->
                 [id \in DOMAIN roster |->
                    IF id \in Ids(t) THEN [roster[id] EXCEPT !.state = "Verified"]
                    ELSE roster[id]]]

\* Node::receive_transcript_and_decrypt
ReceiveTranscriptAndDecrypt(me, d, roster, alphas, t) ==
    LET verified == ReceiveTranscript(alphas, t)
        secret == GMul(t.pvss_share.y_i[me + 1], FInv(d.private_key_sig))
    IN  IF ~IsOk(verified)
        THEN [result |-> verified, dealer |-> d, participants |-> roster]
        ELSE IF me + 1 > Len(t.pvss_share.y_i)
        THEN [result |-> Panic, dealer |-> d, participants |-> roster]
        ELSE [result |-> Ok,
              dealer |-> [d EXCEPT !.accumulated_secret = GAdd(@, secret)],
              participants |->
                 [id \in DOMAIN roster |->
                    IF id \in Ids(t) THEN [roster[id] EXCEPT !.state = "Verified"]
                    ELSE roster[id]]]

\* ---------------------------------------------------- malformed messages
\* what a sender other than an honest share() can put on the wire, starting
\* from a share s that was dealt
TamperKinds == {"c_i", "relabel", "short_y", "low_degree"}

Tampered(s, kind) ==
    CASE kind = "c_i" -> [s EXCEPT !.c_i = GAdd(@, 1)]
      [] kind = "relabel" ->
            [s EXCEPT !.participant_id = (@ + 1) % num_participants]
      [] kind = "short_y" ->
            [s EXCEPT !.pvss_share.y_i = SubSeq(@, 1, Len(@) - 1)]
      [] kind = "low_degree" ->
            \* the dealer deals the constant polynomial f_0 and sends no f_i
            LET f_0 == GMul(s.c_i, FInv(G_G1))
            IN  [s EXCEPT !.pvss_share =
                    [f_i |-> << >>,
                     u_i_2 |-> s.pvss_share.u_i_2,
                     a_i |-> [j \in 1 .. num_participants |-> s.c_i],
                     y_i |-> [j \in 1 .. num_participants |->
                                GMul(PublicKeySig(j - 1), f_0)]]]

Applicable(kind) ==
    /\ kind = "relabel" => num_participants > 1
    /\ kind = "low_degree" => degree > 0

\* the messages a receive call can be handed
Messages ==
    dealt \cup {Tampered(s, kind) : s \in dealt, kind \in {k \in TamperKinds : Applicable(k)}}

\* ------------------------------------------------------------- the machine
\* the record of a call: msg is the message handed in, inner what the inner
\* DKGAggregator call returned, result what the caller saw
NoCall == [instance |-> -1, op |-> "none", msg |-> << >>, inner |-> Ok, result |-> Ok]

\* the roster every instance is constructed with
NewParticipants(n) ==
    [id \in 0 .. (n - 1) |->
        [id |-> id, public_key_sig |-> PublicKeySig(id), state |-> "Initial"]]

\* the Dealer node i is constructed with
NewDealer(i) ==
    [private_key_sig |-> PrivateKeySig(i),
     accumulated_secret |-> 0,
     participant |-> [id |-> i, public_key_sig |-> PublicKeySig(i), state |-> "Dealer"]]

Init ==
    /\ scheme \in {"BLS", "Schnorr"}
    /\ \E n \in 1 .. MaxN :
        /\ num_participants = n
        /\ \E deg \in 0 .. MaxDegree :
            /\ degree = deg
            /\ transcript = [r \in 0 .. n |-> DKGTranscriptEmpty(deg, n)]
        /\ participants = [r \in 0 .. n |-> NewParticipants(n)]
        /\ dealer = [i \in 0 .. (n - 1) |-> NewDealer(i)]
        /\ accepted = [r \in 0 .. n |-> << >>]
        /\ active \in {a \in SUBSET (0 .. n) :
                          Cardinality(a) = Min(MaxInstances, n + 1)}
    /\ dealt = {}
    /\ panicked = {}
    /\ last = NoCall
    /\ pending = {}

\* an instance receives while it is within its budget and has not panicked
CanReceive(r) ==
    /\ r \in active
    /\ r \notin panicked
    /\ Len(accepted[r]) < MaxRecv

\* node me calls share(rng) and sends what it returns
NodeShare(me, seed) ==
    /\ Cardinality(dealt) < MaxWire
    /\ \E out \in {Share(me, seed)} :
        IF IsOk(out.result)
        THEN /\ dealt' = dealt \cup {out.share}
             /\ dealer' = [dealer EXCEPT ![me].participant.state = "DealerShared"]
        ELSE UNCHANGED << dealt, dealer >>
    /\ UNCHANGED << pending, scheme, num_participants, degree, participants, transcript,
                    active, accepted, panicked, last >>

\* the same call with what share() returned kept in last
NodeShareCall(me, seed) ==
    /\ Cardinality(dealt) < MaxWire
    /\ \E out \in {Share(me, seed)} :
        /\ IF IsOk(out.result)
           THEN /\ dealt' = dealt \cup {out.share}
                /\ dealer' = [dealer EXCEPT ![me].participant.state = "DealerShared"]
           ELSE UNCHANGED << dealt, dealer >>
        /\ last' = [instance |-> me, op |-> "share",
                    msg |-> IF IsOk(out.result) THEN out.share ELSE << >>,
                    inner |-> out.result, result |-> out.result]
    /\ UNCHANGED << pending, scheme, num_participants, degree, participants, transcript,
                    active, accepted, panicked >>

\* the verifier's rng: the stream that starts at a, k-th Fr::rand draw
Draw(a, k) == (a + k - 1) % FieldModulus
Challenges == {<< Draw(a, 3), Draw(a, 2), Draw(a, 1) >> : a \in Fr}

\* the stand-alone aggregator calls receive_share(rng, share); the rng
\* supplies the challenge alpha
AggregatorReceiveShare(share) ==
    /\ CanReceive(Aggregator)
    /\ \E out \in {ReceiveShare(transcript[Aggregator], alpha, share) : alpha \in Fr} :
        /\ transcript' = [transcript EXCEPT ![Aggregator] = out.transcript]
        /\ accepted' = IF IsOk(out.result)
                       THEN [accepted EXCEPT ![Aggregator] = Append(@, share)]
                       ELSE accepted
        /\ last' = [instance |-> Aggregator, op |-> "receive_share", msg |-> share,
                    inner |-> out.result, result |-> out.result]
    /\ UNCHANGED << pending, scheme, num_participants, degree, participants, dealer,
                    dealt, active, panicked >>

\* node me calls receive_share_and_decrypt(rng, share)
NodeReceiveShare(me, share) ==
    /\ CanReceive(me)
    /\ \E out \in {ReceiveShareAndDecrypt(me, transcript[me], dealer[me],
                                          participants[me], alpha, share) : alpha \in Fr} :
        /\ transcript' = [transcript EXCEPT ![me] = out.transcript]
        /\ dealer' = [dealer EXCEPT ![me] = out.dealer]
        /\ participants' = [participants EXCEPT ![me] = out.participants]
        /\ accepted' = IF IsOk(out.inner)
                       THEN [accepted EXCEPT ![me] = Append(@, share)]
                       ELSE accepted
        /\ panicked' = IF out.result = Panic THEN panicked \cup {me} ELSE panicked
        /\ last' = [instance |-> me, op |-> "receive_share_and_decrypt", msg |-> share,
                    inner |-> out.inner, result |-> out.result]
    /\ UNCHANGED << pending, scheme, num_participants, degree, dealt, active >>

\* node me calls receive_transcript_and_decrypt on a transcript t that some
\* instance holds and broadcasts
NodeReceiveTranscript(me, t) ==
    /\ CanReceive(me)
    /\ \E out \in {ReceiveTranscriptAndDecrypt(me, dealer[me], participants[me], alphas, t) :
                      alphas \in Challenges} :
        /\ dealer' = [dealer EXCEPT ![me] = out.dealer]
        /\ participants' = [participants EXCEPT ![me] = out.participants]
        /\ accepted' = IF IsOk(out.result)
                       THEN [accepted EXCEPT ![me] = Append(@, t)]
                       ELSE accepted
        /\ panicked' = IF out.result = Panic THEN panicked \cup {me} ELSE panicked
        /\ last' = [instance |-> me, op |-> "receive_transcript_and_decrypt", msg |-> t,
                    inner |-> out.result, result |-> out.result]
    /\ UNCHANGED << pending, scheme, num_participants, degree, transcript, dealt, active >>

Next ==
    \/ \E me \in Nodes, seed \in Seeds : NodeShare(me, seed)
    \/ \E s \in Messages : AggregatorReceiveShare(s)
    \/ \E me \in Nodes, s \in Messages : NodeReceiveShare(me, s)
    \/ \E me \in Nodes, r \in Instances : NodeReceiveTranscript(me, transcript[r])

Spec == Init /\ [][Next]_vars

\* ------------------------------------------- the roster the tests construct
\* the repository constructs every roster from the dealers' own participant
\* records, whose state is Dealer
RosterOfDealers(n) == [id \in 0 .. (n - 1) |-> NewDealer(id).participant]

InitRoster ==
    /\ scheme \in {"BLS", "Schnorr"}
    /\ \E n \in 1 .. MaxN :
        /\ num_participants = n
        /\ \E deg \in 0 .. MaxDegree :
            /\ degree = deg
            /\ transcript = [r \in 0 .. n |-> DKGTranscriptEmpty(deg, n)]
        /\ participants = [r \in 0 .. n |-> RosterOfDealers(n)]
        /\ dealer = [i \in 0 .. (n - 1) |-> NewDealer(i)]
        /\ accepted = [r \in 0 .. n |-> << >>]
        /\ active \in {a \in SUBSET (0 .. n) :
                          Cardinality(a) = Min(MaxInstances, n + 1)}
    /\ dealt = {}
    /\ panicked = {}
    /\ last = NoCall
    /\ pending = {}

SpecRoster == InitRoster /\ [][Next]_vars

\* ------------------------------------------------- Node::share on its own
\* share() succeeds when num_participants is a power of two and fails when it
\* is not; the runs of share() alone cover both
MaxNShare == 3

InitShare ==
    /\ scheme \in {"BLS", "Schnorr"}
    /\ \E n \in 1 .. MaxNShare :
        /\ num_participants = n
        /\ \E deg \in 0 .. MaxDegree :
            /\ degree = deg
            /\ transcript = [r \in 0 .. n |-> DKGTranscriptEmpty(deg, n)]
        /\ participants = [r \in 0 .. n |-> NewParticipants(n)]
        /\ dealer = [i \in 0 .. (n - 1) |-> NewDealer(i)]
        /\ accepted = [r \in 0 .. n |-> << >>]
    /\ active = {}
    /\ dealt = {}
    /\ panicked = {}
    /\ last = NoCall
    /\ pending = {}

NextShare == \E me \in Nodes, seed \in Seeds : NodeShareCall(me, seed)

SpecShare == InitShare /\ [][NextShare]_vars

\* ------------------------------------------- sign and verify on their own
\* test_simple_sig: a keypair from generate_keypair (from_sk of a drawn
\* secret), a message, and sign followed by verify; done once per run, twice
\* on the same secret and message with two draws v, w of the rng
MaxMessageLen == 2
MessageBytes == UNION {[1 .. l -> 0 .. 3] : l \in 0 .. MaxMessageLen}

InitSig ==
    /\ scheme \in {"BLS", "Schnorr"}
    /\ num_participants = 1
    /\ degree = 0
    /\ transcript = [r \in 0 .. 1 |-> DKGTranscriptEmpty(0, 1)]
    /\ participants = [r \in 0 .. 1 |-> NewParticipants(1)]
    /\ dealer = [i \in 0 .. 0 |-> NewDealer(i)]
    /\ accepted = [r \in 0 .. 1 |-> << >>]
    /\ active = {}
    /\ dealt = {}
    /\ panicked = {}
    /\ last = NoCall
    /\ pending = {}

VerifyResult(role, public_key, message, signature) ==
    IF Verify(role, public_key, message, signature) THEN Ok ELSE SignatureError

SignThenVerify(role, sk, message, v, w) ==
    /\ last = NoCall
    /\ last' = [op |-> "sign", role |-> role, sk |-> sk,
                public_key |-> FromSk(role, sk), message |-> message,
                nonces |-> << v, w >>,
                signatures |-> << Sign(role, sk, message, v),
                                  Sign(role, sk, message, w) >>,
                verified |-> << VerifyResult(role, FromSk(role, sk), message,
                                             Sign(role, sk, message, v)),
                                VerifyResult(role, FromSk(role, sk), message,
                                             Sign(role, sk, message, w)) >>]
    /\ UNCHANGED << pending, scheme, num_participants, degree, participants,
                    transcript, dealer, active, dealt, accepted, panicked >>

NextSig ==
    \E role \in {"pok", "sig"}, sk \in Fr, message \in MessageBytes, v \in Fr, w \in Fr :
        SignThenVerify(role, sk, message, v, w)

SpecSig == InitSig /\ [][NextSig]_vars

\* ------------------------------------ verify under another key or message
\* test_simple_sig_wrong_pk: a signature of keypair (sk, pk) is verified
\* under the public key of a second keypair
WrongPk(role, sk, sk2, message, v) ==
    /\ last = NoCall
    /\ sk2 # sk
    /\ last' = [op |-> "wrong_pk", role |-> role, sk |-> sk, sk2 |-> sk2,
                message |-> message,
                signature |-> Sign(role, sk, message, v),
                result |-> VerifyResult(role, FromSk(role, sk2), message,
                                        Sign(role, sk, message, v))]
    /\ UNCHANGED << pending, scheme, num_participants, degree, participants,
                    transcript, dealer, active, dealt, accepted, panicked >>

\* test_simple_sig_wrong_message: a signature on message is verified under
\* its own public key on wrong_message
WrongMessage(role, sk, message, wrong_message, v) ==
    /\ last = NoCall
    /\ wrong_message # message
    /\ last' = [op |-> "wrong_message", role |-> role, sk |-> sk,
                message |-> message, wrong_message |-> wrong_message,
                signature |-> Sign(role, sk, message, v),
                result |-> VerifyResult(role, FromSk(role, sk), wrong_message,
                                        Sign(role, sk, message, v))]
    /\ UNCHANGED << pending, scheme, num_participants, degree, participants,
                    transcript, dealer, active, dealt, accepted, panicked >>

NextWrong ==
    /\ last = NoCall
    /\ \/ \E role \in {"pok", "sig"}, sk \in Fr, sk2 \in Fr,
             message \in MessageBytes, v \in Fr :
             WrongPk(role, sk, sk2, message, v)
       \/ \E role \in {"pok", "sig"}, sk \in Fr, message \in MessageBytes,
             wrong_message \in MessageBytes, v \in Fr :
             WrongMessage(role, sk, message, wrong_message, v)

SpecWrong == InitSig /\ [][NextWrong]_vars

\* ------------------------------------------------ batch_verify on its own
\* test_simple_sig_batch: keypairs, messages and signatures are collected in
\* three lists and handed to batch_verify.  An entry is a signature of sk on
\* message, listed as it is, under the key of another secret, or with another
\* message; the three lists may be cut to different lengths
MaxBatch == 2
BatchMessages == {<< 0 >>, << 1, 2 >>}
BatchEntries ==
    [sk : Fr, message : BatchMessages,
     kind : {"valid", "wrong_pk", "wrong_message"}]

EntryPublicKey(role, e) ==
    FromSk(role, IF e.kind = "wrong_pk" THEN FAdd(e.sk, 1) ELSE e.sk)

EntryMessage(e) ==
    IF e.kind = "wrong_message"
    THEN CHOOSE m \in BatchMessages : m # e.message
    ELSE e.message

\* the i-th signature is made with the i-th draw of the rng
EntrySignature(role, e, i) == Sign(role, e.sk, e.message, i % FieldModulus)

BatchVerifyCall(role, entries, kp, km, ks, alpha) ==
    /\ last = NoCall
    /\ \E public_keys \in {[i \in 1 .. kp |-> EntryPublicKey(role, entries[i])]},
          messages \in {[i \in 1 .. km |-> EntryMessage(entries[i])]},
          signatures \in {[i \in 1 .. ks |-> EntrySignature(role, entries[i], i)]} :
          last' = [op |-> "batch_verify", role |-> role, alpha |-> alpha,
                   public_keys |-> public_keys, messages |-> messages,
                   signatures |-> signatures,
                   result |-> BatchVerify(role, alpha, public_keys, messages,
                                          signatures)]
    /\ UNCHANGED << pending, scheme, num_participants, degree, participants,
                    transcript, dealer, active, dealt, accepted, panicked >>

NextBatch ==
    /\ last = NoCall
    /\ \E role \in {"pok", "sig"}, entries \in [1 .. MaxBatch -> BatchEntries],
          kp \in 0 .. MaxBatch, km \in 0 .. MaxBatch, ks \in 0 .. MaxBatch,
          alpha \in Fr :
          BatchVerifyCall(role, entries, kp, km, ks, alpha)

SpecBatch == InitSig /\ [][NextBatch]_vars

\* ------------------------------------------- BLS aggregation on its own
\* test_aggregated_sig, test_aggregated_sig_wrong_pk and
\* test_aggregated_sig_wrong_message: several keypairs sign one message; the
\* aggregated signature is verified under the aggregated key, under each
\* single key, and under the aggregated key on wrong_message
MaxKeys == 3

InitBls == InitSig /\ scheme = "BLS"

AggregatedSig(role, sks, message, wrong_message) ==
    /\ last = NoCall
    /\ wrong_message # message
    /\ \E public_keys \in {[i \in 1 .. Len(sks) |-> FromSk(role, sks[i])]},
          signatures \in {[i \in 1 .. Len(sks) |->
                              Sign(role, sks[i], message, 0)]} :
        \E aggregated_pk \in {BlsAggregatePublicKeys(public_keys)},
           aggregated_sig \in {BlsAggregateSignatures(signatures)} :
            last' = [op |-> "aggregated_sig", role |-> role, sks |-> sks,
                     message |-> message, wrong_message |-> wrong_message,
                     aggregated_pk |-> aggregated_pk,
                     aggregated_sig |-> aggregated_sig,
                     result |-> VerifyResult(role, aggregated_pk, message,
                                             aggregated_sig),
                     single |-> [i \in 1 .. Len(sks) |->
                                    VerifyResult(role, public_keys[i], message,
                                                 aggregated_sig)],
                     wrong |-> VerifyResult(role, aggregated_pk, wrong_message,
                                            aggregated_sig)]
    /\ UNCHANGED << pending, scheme, num_participants, degree, participants,
                    transcript, dealer, active, dealt, accepted, panicked >>

NextBls ==
    /\ last = NoCall
    /\ \E role \in {"pok", "sig"}, k \in 2 .. MaxKeys,
          message \in BatchMessages, wrong_message \in BatchMessages :
          \E sks \in [1 .. k -> Fr] :
              AggregatedSig(role, sks, message, wrong_message)

SpecBls == InitBls /\ [][NextBls]_vars

\* ------------------------------------------------- the algebraic signature
\* Group elements are discrete logarithms: those of G2 to the base g_1_g2,
\* those of G1 that are multiples of h_g1 to the base h_g1.  A multiple of a
\* hashed message H(m) is kept as [m, k], as a BLS signature is.
\* algebraic/srs.rs SRS::setup: g_1_g2 and h_g1 are the generators, g_2_g2,
\* g_3_g2 and g_4_g2 are drawn
AlgebraicSrs(g_2, g_3, g_4) == [g_1_g2 |-> 1, h_g1 |-> 1, g_2_g2 |-> g_2,
                                g_3_g2 |-> g_3, g_4_g2 |-> g_4]

\* Keypair::generate_keypair with the draws a, alpha, beta
AlgebraicKeypair(srs, a, alpha, beta) ==
    [srs |-> srs, alpha |-> alpha, beta |-> beta,
     private |-> [sk |-> GMul(srs.g_1_g2, a)],
     public |-> [srs |-> srs, pk |-> GMul(srs.h_g1, a)]]

\* Keypair::prove_key
ProveKey(kp) ==
    [public_key |-> kp.public,
     key_proof |->
        [pi_1_g2 |-> GAdd(GMul(kp.srs.g_1_g2, FNeg(kp.alpha)),
                          GMul(kp.srs.g_2_g2, FNeg(kp.beta))),
         pi_2_g2 |-> GAdd(GAdd(GMul(kp.srs.g_3_g2, FNeg(kp.alpha)),
                               GMul(kp.srs.g_4_g2, FNeg(kp.beta))),
                          kp.private.sk),
         pi_1_g1 |-> GMul(kp.srs.h_g1, kp.alpha),
         pi_3_g1 |-> GMul(kp.srs.h_g1, kp.beta)]]

\* Keypair::sign and prove_signature
AlgebraicSign(kp, message) ==
    [signature_proof |-> [pi_2_g1 |-> [m |-> message, k |-> kp.alpha],
                          pi_4_g1 |-> [m |-> message, k |-> kp.beta]]]

\* ProvenPublicKey::verify: equations 1 and 3
ProvenPublicKeyVerify(ppk) ==
    LET srs == ppk.public_key.srs
        eq1 == FAdd(FAdd(Pairing(srs.h_g1, ppk.key_proof.pi_1_g2),
                         Pairing(ppk.key_proof.pi_1_g1, srs.g_1_g2)),
                    Pairing(ppk.key_proof.pi_3_g1, srs.g_2_g2))
        eq3 == FAdd(FAdd(Pairing(srs.h_g1, ppk.key_proof.pi_2_g2),
                         Pairing(ppk.key_proof.pi_1_g1, srs.g_3_g2)),
                    FAdd(Pairing(ppk.key_proof.pi_3_g1, srs.g_4_g2),
                         Pairing(ppk.public_key.pk, GNeg(srs.g_1_g2))))
    IN  IF eq1 # 0 THEN ErrId("AlgebraicVerifyProof", "Eq1")
        ELSE IF eq3 # 0 THEN ErrId("AlgebraicVerifyProof", "Eq3")
        ELSE Ok

\* the exponent of e(H(b), g_1_g2) in the product of the pairings of H(message)
\* with q_0 and of the two signature elements with q_2 and q_4
HashedPairings(b, message, q_0, sig, q_2, q_4) ==
    FAdd(IF message = b THEN q_0 ELSE 0,
         FAdd(IF sig.signature_proof.pi_2_g1.m = b
              THEN Pairing(sig.signature_proof.pi_2_g1.k, q_2) ELSE 0,
              IF sig.signature_proof.pi_4_g1.m = b
              THEN Pairing(sig.signature_proof.pi_4_g1.k, q_4) ELSE 0))

HashedBases(message, sig) ==
    {message, sig.signature_proof.pi_2_g1.m, sig.signature_proof.pi_4_g1.m}

\* Signature::verify_proof: equation 2
VerifyProof(sig, ppk, message) ==
    IF \A b \in HashedBases(message, sig) :
          HashedPairings(b, message, ppk.key_proof.pi_1_g2, sig,
                         ppk.public_key.srs.g_1_g2, ppk.public_key.srs.g_2_g2) = 0
    THEN Ok
    ELSE ErrId("AlgebraicVerifyProof", "Eq2")

\* Signature::derive: the element of the target group, as its exponents
Derive(sig, ppk, message) ==
    {<< b, HashedPairings(b, message, ppk.key_proof.pi_2_g2, sig,
                          ppk.public_key.srs.g_3_g2, ppk.public_key.srs.g_4_g2) >> :
        b \in {c \in HashedBases(message, sig) :
                  HashedPairings(c, message, ppk.key_proof.pi_2_g2, sig,
                                 ppk.public_key.srs.g_3_g2,
                                 ppk.public_key.srs.g_4_g2) # 0}}

\* verify_and_derive that skips verify_proof
VerifyAndDeriveUnverified(sig, ppk, message) ==
    [result |-> Ok, derived |-> Derive(sig, ppk, message)]

\* Signature::verify_and_derive
VerifyAndDerive(sig, ppk, message) ==
    IF ~IsOk(VerifyProof(sig, ppk, message))
    THEN [result |-> VerifyProof(sig, ppk, message)]
    ELSE [result |-> Ok, derived |-> Derive(sig, ppk, message)]

\* ProvenPublicKey::aggregate: try_fold from the zero key under the given SRS
RECURSIVE ProvenPublicKeyAggregate(_, _)
ProvenPublicKeyAggregate(public_keys, srs) ==
    IF public_keys = << >>
    THEN [result |-> Ok,
          key |-> [public_key |-> [srs |-> srs, pk |-> 0],
                   key_proof |-> [pi_1_g2 |-> 0, pi_2_g2 |-> 0,
                                  pi_1_g1 |-> 0, pi_3_g1 |-> 0]]]
    ELSE LET acc == ProvenPublicKeyAggregate(
                        SubSeq(public_keys, 1, Len(public_keys) - 1), srs)
             pk == public_keys[Len(public_keys)]
         IN  IF ~IsOk(acc.result) THEN acc
             ELSE IF acc.key.public_key.srs # pk.public_key.srs
             THEN [result |-> Err("SRSDifferent")]
             ELSE [result |-> Ok,
                   key |-> [public_key |->
                               [srs |-> acc.key.public_key.srs,
                                pk |-> GAdd(acc.key.public_key.pk, pk.public_key.pk)],
                            key_proof |->
                               [pi_1_g2 |-> GAdd(acc.key.key_proof.pi_1_g2, pk.key_proof.pi_1_g2),
                                pi_2_g2 |-> GAdd(acc.key.key_proof.pi_2_g2, pk.key_proof.pi_2_g2),
                                pi_1_g1 |-> GAdd(acc.key.key_proof.pi_1_g1, pk.key_proof.pi_1_g1),
                                pi_3_g1 |-> GAdd(acc.key.key_proof.pi_3_g1, pk.key_proof.pi_3_g1)]]]

\* Signature::aggregate: fold from Signature::default()
RECURSIVE SignatureAggregate(_)
SignatureAggregate(signatures) ==
    IF signatures = << >>
    THEN [signature_proof |-> [pi_2_g1 |-> [m |-> << >>, k |-> 0],
                               pi_4_g1 |-> [m |-> << >>, k |-> 0]]]
    ELSE LET acc == SignatureAggregate(SubSeq(signatures, 1, Len(signatures) - 1))
             sig == signatures[Len(signatures)]
         IN  [signature_proof |->
                 [pi_2_g1 |-> BlsSignatureAdd(acc.signature_proof.pi_2_g1,
                                              sig.signature_proof.pi_2_g1),
                  pi_4_g1 |-> BlsSignatureAdd(acc.signature_proof.pi_4_g1,
                                              sig.signature_proof.pi_4_g1)]]

\* the SRSs of the runs: g_2_g2 is any element, g_3_g2 and g_4_g2 are two
\* further draws
AlgebraicSrss == {AlgebraicSrs(g_2, 2, 3) : g_2 \in Fr}
AlgebraicSecrets == {0, 1, 2}
AlgebraicKeypairs(srs) ==
    {AlgebraicKeypair(srs, a, alpha, beta) :
        a \in AlgebraicSecrets, alpha \in Fr, beta \in Fr}

\* test_aggregated_sig, test_aggregated_sig_wrong_pk and
\* test_aggregated_sig_wrong_message of algebraic/mod.rs: two keypairs under
\* one SRS prove their keys and sign one message; keys and signatures are
\* aggregated; the aggregated signature is verified under the aggregated key,
\* under each single key, and under the aggregated key on wrong_message
AlgebraicAggregatedSig(keypair1, keypair2, message, wrong_message) ==
    /\ last = NoCall
    /\ wrong_message # message
    /\ \E ppk1 \in {ProveKey(keypair1)}, ppk2 \in {ProveKey(keypair2)},
          sig1 \in {AlgebraicSign(keypair1, message)},
          sig2 \in {AlgebraicSign(keypair2, message)} :
        \E agg \in {ProvenPublicKeyAggregate(<< ppk1, ppk2 >>, keypair1.srs)},
           aggregated_sig \in {SignatureAggregate(<< sig1, sig2 >>)} :
            last' = [op |-> "algebraic_aggregated_sig",
                     keypairs |-> << keypair1, keypair2 >>,
                     message |-> message, wrong_message |-> wrong_message,
                     proven |-> << ProvenPublicKeyVerify(ppk1),
                                   ProvenPublicKeyVerify(ppk2) >>,
                     alone |-> << VerifyAndDerive(sig1, ppk1, message),
                                  VerifyAndDerive(sig2, ppk2, message) >>,
                     aggregated_pk |-> agg,
                     aggregated_sig |-> aggregated_sig,
                     result |-> VerifyAndDerive(aggregated_sig, agg.key, message),
                     single |-> << VerifyAndDerive(aggregated_sig, ppk1, message),
                                   VerifyAndDerive(aggregated_sig, ppk2, message) >>,
                     wrong |-> VerifyAndDerive(aggregated_sig, agg.key,
                                               wrong_message)]
    /\ UNCHANGED << pending, scheme, num_participants, degree, participants,
                    transcript, dealer, active, dealt, accepted, panicked >>

\* ProvenPublicKey::aggregate on two proven keys, each made under an SRS of
\* its own, and a given SRS
AlgebraicAggregateKeys(srs, keypair1, keypair2) ==
    /\ last = NoCall
    /\ last' = [op |-> "proven_public_key_aggregate", srs |-> srs,
                keypairs |-> << keypair1, keypair2 >>,
                result |-> ProvenPublicKeyAggregate(
                              << ProveKey(keypair1), ProveKey(keypair2) >>,
                              srs).result]
    /\ UNCHANGED << pending, scheme, num_participants, degree, participants,
                    transcript, dealer, active, dealt, accepted, panicked >>

NextAlgebraic ==
    /\ last = NoCall
    /\ \/ \E srs \in AlgebraicSrss, message \in BatchMessages,
             wrong_message \in BatchMessages :
             \E keypair1 \in AlgebraicKeypairs(srs),
                keypair2 \in AlgebraicKeypairs(srs) :
                AlgebraicAggregatedSig(keypair1, keypair2, message, wrong_message)
       \/ \E srs \in AlgebraicSrss, srs1 \in AlgebraicSrss, srs2 \in AlgebraicSrss :
             \E keypair1 \in {AlgebraicKeypair(srs1, 1, alpha, 1) : alpha \in Fr},
                keypair2 \in {AlgebraicKeypair(srs2, 2, 1, beta) : beta \in Fr} :
                AlgebraicAggregateKeys(srs, keypair1, keypair2)

SpecAlgebraic == InitBls /\ [][NextAlgebraic]_vars

\* -------------------------------------------------- the all-honest round
\* every node is live: each calls share() once, and the share it returns is
\* owed to every node, itself included, which receives it once through
\* receive_share_and_decrypt (the loops of test_2_nodes_verify)
InitRound ==
    /\ scheme \in {"BLS", "Schnorr"}
    /\ \E n \in 1 .. MaxNShare :
        /\ num_participants = n
        /\ \E deg \in 0 .. MaxDegree :
            /\ degree = deg
            /\ transcript = [r \in 0 .. n |-> DKGTranscriptEmpty(deg, n)]
        /\ participants = [r \in 0 .. n |-> NewParticipants(n)]
        /\ dealer = [i \in 0 .. (n - 1) |-> NewDealer(i)]
        /\ accepted = [r \in 0 .. n |-> << >>]
        /\ active = 0 .. (n - 1)
    /\ dealt = {}
    /\ panicked = {}
    /\ last = NoCall
    /\ pending = {}

\* node me calls share(rng) once; what it returns is owed to every node
RoundShare(me, seed) ==
    /\ me \in Nodes
    /\ dealer[me].participant.state = "Dealer"
    /\ \E out \in {Share(me, seed)} :
        /\ IsOk(out.result)
        /\ dealt' = dealt \cup {out.share}
        /\ dealer' = [dealer EXCEPT ![me].participant.state = "DealerShared"]
        /\ pending' = pending \cup {<< to, out.share >> : to \in Nodes}
    /\ UNCHANGED << scheme, num_participants, degree, participants, transcript,
                    active, accepted, panicked, last >>

\* node me is handed a share owed to it and calls
\* receive_share_and_decrypt(rng, share)
RoundDeliver(me, share) ==
    /\ << me, share >> \in pending
    /\ \E out \in {ReceiveShareAndDecrypt(me, transcript[me], dealer[me],
                                          participants[me], alpha, share) : alpha \in Fr} :
        /\ transcript' = [transcript EXCEPT ![me] = out.transcript]
        /\ dealer' = [dealer EXCEPT ![me] = out.dealer]
        /\ participants' = [participants EXCEPT ![me] = out.participants]
        /\ accepted' = IF IsOk(out.inner)
                       THEN [accepted EXCEPT ![me] = Append(@, share)]
                       ELSE accepted
        /\ panicked' = IF out.result = Panic THEN panicked \cup {me} ELSE panicked
        /\ last' = [instance |-> me, op |-> "receive_share_and_decrypt", msg |-> share,
                    inner |-> out.inner, result |-> out.result]
    /\ pending' = pending \ {<< me, share >>}
    /\ UNCHANGED << scheme, num_participants, degree, dealt, active >>

NextRound ==
    \/ \E me \in Nodes, seed \in Seeds : RoundShare(me, seed)
    \/ \E d \in pending : RoundDeliver(d[1], d[2])

SpecRound == InitRound /\ [][NextRound]_vars

\* the scheduling of the round's loops. On a behaviour of SpecRound a step
\* that makes node me DealerShared is its share() call, which is possible
\* whenever me is still in state Dealer and share() returns Ok, and a step that takes a delivery out
\* of pending is that receive_share_and_decrypt call, which is possible
\* whenever the delivery is owed
ShareMade(me) ==
    /\ me \in Nodes
    /\ dealer[me].participant.state = "Dealer"
    /\ \E seed \in Seeds : IsOk(Share(me, seed).result)
    /\ dealer' = [dealer EXCEPT ![me].participant.state = "DealerShared"]

DeliveryMade(me) ==
    \E d \in pending : d[1] = me /\ pending' = pending \ {d}

\* every call the loops make is made: no node postpones its share() for ever,
\* and no delivery that is owed to a node is postponed for ever
FairRound ==
    /\ SpecRound
    /\ \A me \in 0 .. (MaxNShare - 1) : WF_dealer(ShareMade(me))
    /\ \A me \in 0 .. (MaxNShare - 1) : WF_pending(DeliveryMade(me))

\* ----------------------------------- receive_transcript on changed weights
\* during an all-honest round an aggregator with the round's roster is
\* handed the transcript a node holds, as it is or with the weight of one
\* contribution replaced, and calls receive_transcript(rng, transcript)
MaxWeight == 3

WithWeight(t, id, w) == [t EXCEPT !.contributions[id].weight = w]

ReceiveTranscriptCall(r, id, w) ==
    /\ r \in Nodes
    /\ id \in Ids(transcript[r])
    /\ \E t \in {WithWeight(transcript[r], id, w)} :
        \E out \in {ReceiveTranscript(alphas, t) : alphas \in Challenges} :
            last' = [instance |-> Aggregator, op |-> "receive_transcript",
                     msg |-> t, from |-> transcript[r], id |-> id,
                     inner |-> out, result |-> out]
    /\ UNCHANGED << pending, scheme, num_participants, degree, participants,
                    transcript, dealer, active, dealt, accepted, panicked >>

NextWeight ==
    \/ \E me \in Nodes, seed \in Seeds : RoundShare(me, seed)
    \/ \E d \in pending : RoundDeliver(d[1], d[2])
    \/ \E r \in Nodes, id \in Roster, w \in 0 .. MaxWeight :
          ReceiveTranscriptCall(r, id, w)

SpecWeight == InitRound /\ [][NextWeight]_vars

\* ------------------------ receive_transcript_and_decrypt during the round
\* during an all-honest round, when no delivery is owed, a node is handed the
\* transcript some node holds and calls
\* receive_transcript_and_decrypt(rng, transcript); at most MaxTranscripts
\* such calls succeed during a run
MaxTranscripts == 2

IsTranscript(msg) == "contributions" \in DOMAIN msg

TranscriptsAccepted(me) ==
    Cardinality({k \in 1 .. Len(accepted[me]) : IsTranscript(accepted[me][k])})

RECURSIVE TranscriptsAcceptedUpTo(_)
TranscriptsAcceptedUpTo(me) ==
    IF me \notin Nodes THEN 0
    ELSE TranscriptsAccepted(me) + TranscriptsAcceptedUpTo(me - 1)

RoundReceiveTranscript(me, r) ==
    /\ me \in Nodes
    /\ r \in Nodes
    /\ pending = {}
    /\ TranscriptsAcceptedUpTo(num_participants - 1) < MaxTranscripts
    /\ \E out \in {ReceiveTranscriptAndDecrypt(me, dealer[me], participants[me],
                                               alphas, transcript[r]) :
                      alphas \in Challenges} :
        /\ dealer' = [dealer EXCEPT ![me] = out.dealer]
        /\ participants' = [participants EXCEPT ![me] = out.participants]
        /\ accepted' = IF IsOk(out.result)
                       THEN [accepted EXCEPT ![me] = Append(@, transcript[r])]
                       ELSE accepted
        /\ panicked' = IF out.result = Panic THEN panicked \cup {me} ELSE panicked
        /\ last' = [instance |-> me, op |-> "receive_transcript_and_decrypt",
                    msg |-> transcript[r], inner |-> out.result,
                    result |-> out.result]
    /\ UNCHANGED << pending, scheme, num_participants, degree, transcript,
                    dealt, active >>

NextRoundTranscript ==
    \/ \E me \in Nodes, seed \in Seeds : RoundShare(me, seed)
    \/ \E d \in pending : RoundDeliver(d[1], d[2])
    \/ \E me \in Nodes, r \in Nodes : RoundReceiveTranscript(me, r)

SpecRoundTranscript == InitRound /\ [][NextRoundTranscript]_vars

\* ------------------------------------ DKGTranscript::aggregate on its own
\* aggregate is a public pure function: the transcripts it is applied to are
\* drawn from a set of inputs that no verification has filtered.  An input
\* holds at most one contribution; its id may lie outside 0..n-1, its PoK and
\* signature are those of signer k
InputTranscript(deg, n, id, c, w, k) ==
    [degree |-> deg,
     num_participants |-> n,
     contributions |->
        [i \in {id} |->
            [c_i |-> c, weight |-> w,
             c_i_pok |-> BlsSign(k, message_from_c_i(c)),
             signature_on_c_i |-> BlsSign(k, message_from_c_i(c))]],
     pvss_share |->
        [f_i |-> [j \in 1 .. deg |-> GMul(c, w)],
         u_i_2 |-> GMul(GMul(U_1, c), w),
         a_i |-> [j \in 1 .. n |-> GMul(c, w)],
         y_i |-> [j \in 1 .. n |-> GMul(GMul(c, w), j)]]]

InputTranscripts ==
    {DKGTranscriptEmpty(MaxDegree, MaxN), DKGTranscriptEmpty(0, MaxN)}
      \cup {InputTranscript(MaxDegree, MaxN, id, c, 1, k) :
                id \in 0 .. MaxN, c \in 1 .. 2, k \in 1 .. 2}
      \cup {InputTranscript(MaxDegree, MaxN, 0, 1, 2, 1),
            InputTranscript(MaxDegree, 1, 0, 2, 1, 1), InputTranscript(0, MaxN, 0, 2, 1, 1)}

\* the transcripts a, b, c are held in transcript[0], transcript[1], transcript[2]
Slots == 0 .. 2

InitAgg ==
    /\ scheme = "BLS"
    /\ num_participants = MaxN
    /\ degree = MaxDegree
    /\ transcript \in [Slots -> InputTranscripts]
    /\ participants = [r \in Slots |-> NewParticipants(MaxN)]
    /\ dealer = [i \in 0 .. (MaxN - 1) |-> NewDealer(i)]
    /\ accepted = [r \in Slots |-> << >>]
    /\ active = {}
    /\ dealt = {}
    /\ panicked = {}
    /\ last = NoCall
    /\ pending = {}

\* transcript[i].aggregate(&transcript[j]): the call returns a new transcript
\* and leaves both arguments as they are
AggregateCall(i, j) ==
    /\ \E out \in {Aggregate(transcript[i], transcript[j])} :
          last' = [instance |-> i, op |-> "aggregate", msg |-> transcript[j],
                   inner |-> out.result,
                   result |-> IF IsOk(out.result) THEN << "Ok", out.transcript >>
                              ELSE out.result]
    /\ UNCHANGED << pending, scheme, num_participants, degree, participants, transcript, dealer,
                    dealt, active, accepted, panicked >>

NextAgg == \E i \in Slots, j \in Slots : AggregateCall(i, j)

SpecAgg == InitAgg /\ [][NextAgg]_vars

\* ------------------------------------------ share_verify on changed shares
\* share_verify is a function of the aggregator's configuration and roster,
\* the challenge and the share.  A share a node dealt is changed in one place
\* and handed to share_verify

\* one element of f_i, a_i or y_i, or u_i_2, replaced by another group element
CoordinateChanges(s) ==
    {[s EXCEPT !.pvss_share.f_i[k] = GAdd(@, d)] :
        k \in 1 .. Len(s.pvss_share.f_i), d \in 1 .. (FieldModulus - 1)}
      \cup {[s EXCEPT !.pvss_share.a_i[k] = GAdd(@, d)] :
        k \in 1 .. Len(s.pvss_share.a_i), d \in 1 .. (FieldModulus - 1)}
      \cup {[s EXCEPT !.pvss_share.y_i[k] = GAdd(@, d)] :
        k \in 1 .. Len(s.pvss_share.y_i), d \in 1 .. (FieldModulus - 1)}
      \cup {[s EXCEPT !.pvss_share.u_i_2 = GAdd(@, d)] : d \in 1 .. (FieldModulus - 1)}

\* every value of the signature type: a BLS signature is one group element,
\* a Schnorr signature the pair (v_g, r)
Signatures(sig) ==
    IF scheme = "BLS" THEN {[sig EXCEPT !.k = x] : x \in Fr}
    ELSE {[v_g |-> a, r |-> b] : a \in Fr, b \in Fr}

\* c_i_pok or signature_on_c_i replaced by another signature
SignatureChanges(s) ==
    ({[s EXCEPT !.c_i_pok = x] : x \in Signatures(s.c_i_pok)}
       \cup {[s EXCEPT !.signature_on_c_i = x] : x \in Signatures(s.signature_on_c_i)})
      \ {s}

\* the share, as it is or with pvss_share or c_i changed, sent under an id
\* that is not a key of the roster
IdChanges(s) ==
    {[m EXCEPT !.participant_id = id] :
        m \in {s} \cup CoordinateChanges(s) \cup {[s EXCEPT !.c_i = GAdd(@, 1)]},
        id \in num_participants .. (num_participants + 1)}

InitVerify ==
    /\ scheme \in {"BLS", "Schnorr"}
    /\ \E n \in 1 .. MaxN :
        /\ num_participants = n
        /\ \E deg \in 0 .. MaxDegree :
            /\ degree = deg
            /\ transcript = [r \in 0 .. n |-> DKGTranscriptEmpty(deg, n)]
        /\ participants = [r \in 0 .. n |-> NewParticipants(n)]
        /\ dealer = [i \in 0 .. (n - 1) |-> NewDealer(i)]
        /\ accepted = [r \in 0 .. n |-> << >>]
    /\ active = {}
    /\ dealt = {}
    /\ panicked = {}
    /\ last = NoCall
    /\ pending = {}

\* the one share of the run is dealt
NodeShareOnce(me, seed) ==
    /\ dealt = {}
    /\ NodeShare(me, seed)

\* the share s is changed into m on its way
ChangeShare(s, m) ==
    /\ last.op = "none"
    /\ last' = [instance |-> Aggregator, op |-> "change", msg |-> m,
                inner |-> Ok, result |-> Ok]
    /\ UNCHANGED << pending, scheme, num_participants, degree, participants, transcript, dealer,
                    dealt, active, accepted, panicked >>

\* the aggregator calls share_verify(rng, share) on the changed share; the
\* rng supplies the challenge alpha
ShareVerifyCall(alpha) ==
    /\ last.op = "change"
    /\ \E out \in {ShareVerify(alpha, last.msg)} :
          last' = [last EXCEPT !.op = "share_verify", !.inner = out, !.result = out]
    /\ UNCHANGED << pending, scheme, num_participants, degree, participants, transcript, dealer,
                    dealt, active, accepted, panicked >>

NextVerify ==
    \/ \E me \in Nodes, seed \in Seeds : NodeShareOnce(me, seed)
    \/ \E s \in dealt :
          \E m \in CoordinateChanges(s) \cup SignatureChanges(s) \cup IdChanges(s) :
             ChangeShare(s, m)
    \/ \E alpha \in Fr : ShareVerifyCall(alpha)

SpecVerify == InitVerify /\ [][NextVerify]_vars

\* ============================================================ properties
\* ------------------------------------------------------- what was accepted
IsShare(m) == "participant_id" \in DOMAIN m

\* the shares instance r has accepted, in the order of acceptance
SharesOf(r) == SelectSeq(accepted[r], IsShare)

\* the number of accepted shares of instance r that carry participant_id id
AcceptedCount(r, id) ==
    Cardinality({k \in 1 .. Len(SharesOf(r)) : SharesOf(r)[k].participant_id = id})

\* the shares of dealt with c_i replaced by another G1 element
ReplacedCommitment == {[s EXCEPT !.c_i = c] : s \in dealt, c \in Fr} \ dealt

\* the shares of dealt relabelled with another roster id
Relabelled ==
    {[s EXCEPT !.participant_id = b] : s \in dealt, b \in Roster} \ dealt

\* the transcript an aggregator that starts empty ends with when it accepts
\* the shares of seq in this order; ok is FALSE when a fold fails
RECURSIVE FoldShares(_, _)
FoldShares(t, seq) ==
    IF seq = << >> THEN [ok |-> TRUE, transcript |-> t]
    ELSE LET folded == Aggregate(t, Singleton(Head(seq)))
         IN  IF IsOk(folded.result) THEN FoldShares(folded.transcript, Tail(seq))
             ELSE [ok |-> FALSE, transcript |-> t]

\* every order of the sequence seq
Orders(seq) ==
    {[k \in 1 .. Len(seq) |-> seq[p[k]]] :
        p \in {q \in [1 .. Len(seq) -> 1 .. Len(seq)] :
                 \A i, j \in 1 .. Len(seq) : q[i] = q[j] => i = j}}

\* a transcript without the retained PoK and signature
Core(t) ==
    [degree |-> t.degree,
     num_participants |-> t.num_participants,
     contributions |-> [i \in Ids(t) |-> [c_i |-> t.contributions[i].c_i,
                                          weight |-> t.contributions[i].weight]],
     pvss_share |-> t.pvss_share]

\* the first share instance r accepted from participant id
FirstAccepted(r, id) ==
    LET first == CHOOSE k \in 1 .. Len(SharesOf(r)) :
                    /\ SharesOf(r)[k].participant_id = id
                    /\ \A j \in 1 .. (k - 1) : SharesOf(r)[j].participant_id # id
    IN  SharesOf(r)[first]

\* ------------------------------------------------------------------- C1
\* C1: in every state, for every instance's aggregator and every participant
\* id, contributions[id] is present iff at least one share with that
\* participant_id was accepted, and its weight is the number of accepted
\* shares with that participant_id; a rejected share adds nothing.
C1_WeightIsAcceptedCount ==
    \A r \in Instances : \A id \in Roster :
        /\ id \in Ids(transcript[r]) <=> AcceptedCount(r, id) >= 1
        /\ id \in Ids(transcript[r]) =>
              transcript[r].contributions[id].weight = AcceptedCount(r, id)

\* the aggregator accepted the same dealer's share twice after rejecting nothing
\* else: one contribution of weight 2
C1_Witness ==
    \E id \in Roster :
        /\ id \in Ids(transcript[Aggregator])
        /\ transcript[Aggregator].contributions[id].weight = 2
        /\ AcceptedCount(Aggregator, id) = 2

\* ------------------------------------------------------------------- C2
\* C2: a node that has processed shares one at a time with
\* receive_share_and_decrypt holds the same accumulated_secret as a fresh node
\* with the same signing key after one receive_transcript_and_decrypt call on
\* the transcript an aggregator built by receive_share from the same shares
\* (the node's own aggregator is that aggregator), for every challenge.
C2_ShareByShareEqualsTranscript ==
    \A me \in Nodes :
        (/\ me \in active
         /\ me \notin panicked
         /\ degree < num_participants
         /\ \A k \in 1 .. Len(accepted[me]) : IsShare(accepted[me][k]))
        => \A alphas \in Challenges :
              ReceiveTranscriptAndDecrypt(me, NewDealer(me), NewParticipants(num_participants),
                                          alphas, transcript[me]).dealer.accumulated_secret
                = dealer[me].accumulated_secret

\* ------------------------------------------------------------------- C3
\* C3: a receive_share call of the aggregator returns an error whenever
\* share_verify fails for every challenge or the fold into the transcript
\* fails, and a call that returns an error leaves the transcript (and what
\* counts as accepted) exactly as it was.
C3_ReceiveShareErrorKeepsTranscript ==
    [][(last'.op = "receive_share" /\ AggregatorReceiveShare(last'.msg)) =>
          /\ ((\A alpha \in Fr : ~IsOk(ShareVerify(alpha, last'.msg)))
                \/ ~IsOk(Aggregate(transcript[Aggregator], Singleton(last'.msg)).result))
               => ~IsOk(last'.result)
          /\ ~IsOk(last'.result) =>
               /\ transcript' = transcript
               /\ accepted' = accepted]_vars

\* the aggregator holds a contribution and its last call returned a
\* verification error
C3_Witness ==
    /\ last.op = "receive_share"
    /\ last.result \in {Err("RatioIncorrect"), SignatureError}
    /\ Ids(transcript[Aggregator]) # {}

\* ------------------------------------------------------------------- C4
\* C4: every receive_share_and_decrypt call returns Ok, and when the share is
\* rejected the node's accumulated_secret, its roster states and its
\* aggregator transcript are unchanged.
C4_ReceiveShareAndDecryptAlwaysOk ==
    [][(last'.op = "receive_share_and_decrypt"
          /\ NodeReceiveShare(last'.instance, last'.msg)) =>
          /\ last'.result = Ok
          /\ ~IsOk(last'.inner) =>
               /\ dealer' = dealer
               /\ participants' = participants
               /\ transcript' = transcript]_vars

C7_ReplacedCommitmentRejected ==
    /\ \A r \in Instances : \A s \in ReplacedCommitment : \A alpha \in Fr :
          LET out == ReceiveShare(transcript[r], alpha, s)
          IN  ~IsOk(out.result) /\ out.transcript = transcript[r]
    /\ (last.op = "receive_share" /\ last.msg \in ReplacedCommitment)
          => ~IsOk(last.result)

\* the aggregator was handed a share with a replaced c_i from a dealer whose
\* honest share it holds
C7_Witness ==
    /\ last.op = "receive_share"
    /\ last.msg \in ReplacedCommitment
    /\ last.msg.participant_id \in Ids(transcript[Aggregator])

\* ------------------------------------------------------------------- C8
\* C8: share_verify accepts a share only if signature_on_c_i verifies on
\* enc(c_i) under the roster key of its participant_id and c_i_pok verifies on
\* enc(c_i) under c_i; a dealt share relabelled with another roster id is
\* rejected; every stored contribution carries a signature valid under the
\* roster key of its id and a PoK valid under its c_i.
C8_SignatureAndPokBind ==
    /\ \A s \in Messages \cup Relabelled : \A alpha \in Fr :
          IsOk(ShareVerify(alpha, s)) =>
             /\ Verify("sig", PublicKeySig(s.participant_id),
                       message_from_c_i(s.c_i), s.signature_on_c_i)
             /\ Verify("pok", s.c_i, message_from_c_i(s.c_i), s.c_i_pok)
    /\ \A s \in Relabelled : \A alpha \in Fr : ~IsOk(ShareVerify(alpha, s))
    /\ \A r \in Instances : \A id \in Ids(transcript[r]) :
          LET c == transcript[r].contributions[id]
          IN  /\ Verify("sig", PublicKeySig(id), message_from_c_i(c.c_i),
                        c.signature_on_c_i)
              /\ Verify("pok", c.c_i, message_from_c_i(c.c_i), c.c_i_pok)

\* the aggregator holds a contribution and was handed a relabelled share,
\* which it rejected for its signature
C8_Witness ==
    /\ last.op = "receive_share"
    /\ last.msg \in Relabelled
    /\ last.result = SignatureError
    /\ Ids(transcript[Aggregator]) # {}

C10_OrderIndependentTranscript ==
    \A r \in Instances : \A o \in Orders(SharesOf(r)) :
        LET other == FoldShares(DKGTranscriptEmpty(degree, num_participants), o)
        IN  other.ok => other.transcript = transcript[r]

\* C10: every order in which an aggregator accepts the shares it has accepted
\* ends in the same contribution ids, c_i, weights and pvss_share; the PoK and
\* signature retained for an id are those of the first share accepted for it,
\* and under BLS the whole transcript is the same.
C10_OrderIndependentCore ==
    \A r \in Instances :
        /\ \A o \in Orders(SharesOf(r)) :
              LET other == FoldShares(DKGTranscriptEmpty(degree, num_participants), o)
              IN  other.ok =>
                     /\ Core(other.transcript) = Core(transcript[r])
                     /\ scheme = "BLS" => other.transcript = transcript[r]
        /\ \A id \in Ids(transcript[r]) :
              /\ transcript[r].contributions[id].c_i_pok = FirstAccepted(r, id).c_i_pok
              /\ transcript[r].contributions[id].signature_on_c_i
                    = FirstAccepted(r, id).signature_on_c_i

\* the aggregator accepted two shares of one dealer that carry the same c_i
\* and different signatures
C10_Witness ==
    /\ Len(SharesOf(Aggregator)) = 2
    /\ SharesOf(Aggregator)[1].participant_id = SharesOf(Aggregator)[2].participant_id
    /\ SharesOf(Aggregator)[1].signature_on_c_i # SharesOf(Aggregator)[2].signature_on_c_i


\* both orders of aggregating transcript[i] and transcript[j]
AggregateBothWays(i, j) ==
    [ab |-> Aggregate(transcript[i], transcript[j]),
     ba |-> Aggregate(transcript[j], transcript[i])]

BothOk(x) == IsOk(x.ab.result) /\ IsOk(x.ba.result)

\* C11 (as stated): whenever a.aggregate(b) and b.aggregate(a) both succeed,
\* the two results are equal in every field, the retained PoK and signature
\* included.
C11_AggregateCommutesEveryField ==
    \A i \in Slots, j \in Slots :
        LET x == AggregateBothWays(i, j) IN
        BothOk(x) => x.ab.transcript = x.ba.transcript

\* C11 (amended): whenever a.aggregate(b) and b.aggregate(a) both succeed, the
\* two results have the same configuration, the same ids, the same c_i and
\* weight for every id and the same pvss_share; for an id both arguments hold,
\* each result retains the PoK and signature of its own first argument.
C11_AggregateCommutesCore ==
    \A i \in Slots, j \in Slots :
        LET x == AggregateBothWays(i, j) IN
        BothOk(x) =>
            /\ Core(x.ab.transcript) = Core(x.ba.transcript)
            /\ \A id \in Ids(x.ab.transcript) \cap Ids(transcript[i]) :
                 /\ x.ab.transcript.contributions[id].c_i_pok
                      = transcript[i].contributions[id].c_i_pok
                 /\ x.ab.transcript.contributions[id].signature_on_c_i
                      = transcript[i].contributions[id].signature_on_c_i

\* two transcripts holding the same id and commitment under different
\* signatures have been aggregated, successfully, in one order
C11_Witness ==
    /\ last.op = "aggregate"
    /\ IsOk(last.inner)
    /\ \E id \in Ids(transcript[last.instance]) \cap Ids(last.msg) :
         /\ id \in Ids(last.result[2])
         /\ transcript[last.instance].contributions[id].signature_on_c_i
              # last.msg.contributions[id].signature_on_c_i
         /\ last.result[2].contributions[id].weight = 2

\* C12: aggregate is associative wherever it is defined: when a.aggregate(b),
\* (a.aggregate(b)).aggregate(c), b.aggregate(c) and a.aggregate(b.aggregate(c))
\* all succeed, the two results are equal.
C12_AggregateAssociative ==
    \A i \in Slots, j \in Slots, k \in Slots :
        LET ab == Aggregate(transcript[i], transcript[j])
            bc == Aggregate(transcript[j], transcript[k])
        IN  (IsOk(ab.result) /\ IsOk(bc.result)) =>
              LET ab_c == Aggregate(ab.transcript, transcript[k])
                  a_bc == Aggregate(transcript[i], bc.transcript)
              IN  (IsOk(ab_c.result) /\ IsOk(a_bc.result)) =>
                     ab_c.transcript = a_bc.transcript

\* three transcripts that hold a contribution each, two of them for the same
\* id, aggregate in both groupings
C12_Witness ==
    /\ last.op = "aggregate"
    /\ IsOk(last.inner)
    /\ Ids(transcript[0]) # {} /\ Ids(transcript[1]) # {} /\ Ids(transcript[2]) # {}
    /\ Ids(transcript[0]) = Ids(transcript[1])
    /\ Ids(transcript[2]) # Ids(transcript[0])
    /\ transcript[0].contributions # transcript[1].contributions
    /\ LET ab == Aggregate(transcript[0], transcript[1])
           bc == Aggregate(transcript[1], transcript[2])
       IN  /\ IsOk(ab.result) /\ IsOk(bc.result)
           /\ IsOk(Aggregate(ab.transcript, transcript[2]).result)
           /\ IsOk(Aggregate(transcript[0], bc.transcript).result)
           /\ Cardinality(Ids(Aggregate(ab.transcript, transcript[2]).transcript)) = 2


\* node me has accepted honest shares only: every message in its log is a
\* share a node dealt, and at least one was accepted
HonestSharesOnly(me) ==
    /\ me \in active \cap Nodes
    /\ accepted[me] # << >>
    /\ \A k \in 1 .. Len(accepted[me]) : accepted[me][k] \in dealt

\* node other, freshly constructed, calls receive_share_and_decrypt on the
\* shares of seq in this order, every call drawing the challenge alpha; ok is
\* FALSE when one of them was not accepted
RECURSIVE ReplayShares(_, _, _, _, _, _)
ReplayShares(other, t, d, roster, alpha, seq) ==
    IF seq = << >> THEN [ok |-> TRUE, dealer |-> d]
    ELSE LET out == ReceiveShareAndDecrypt(other, t, d, roster, alpha, Head(seq))
         IN  IF IsOk(out.inner) /\ IsOk(out.result)
             THEN ReplayShares(other, out.transcript, out.dealer, out.participants,
                               alpha, Tail(seq))
             ELSE [ok |-> FALSE, dealer |-> d]

FreshReplay(other, alpha, seq) ==
    ReplayShares(other, DKGTranscriptEmpty(degree, num_participants), NewDealer(other),
                 NewParticipants(num_participants), alpha, seq)

\* C13 (as stated): any two nodes that have accepted the same honest shares
\* hold equal accumulated_secret values.
C13_AllNodesSameSecret ==
    \A me \in Nodes : HonestSharesOnly(me) =>
        \A other \in Nodes, alpha \in Fr :
            LET replay == FreshReplay(other, alpha, accepted[me]) IN
            replay.ok =>
                replay.dealer.accumulated_secret = dealer[me].accumulated_secret

\* C13 (amended): a node that has accepted honest shares one by one and a
\* node with the same id and signing key that accepts the transcript
\* aggregated from the same shares hold equal accumulated_secret values, and
\* so does any node of that id accepting the same shares again.
C13_SameNodeSameSecret ==
    \A me \in Nodes : HonestSharesOnly(me) =>
        /\ \A alphas \in Challenges :
              LET out == ReceiveTranscriptAndDecrypt(me, NewDealer(me),
                              NewParticipants(num_participants), alphas, transcript[me])
              IN  IsOk(out.result) =>
                    out.dealer.accumulated_secret = dealer[me].accumulated_secret
        /\ \A alpha \in Fr :
              LET replay == FreshReplay(me, alpha, accepted[me]) IN
              replay.ok =>
                 replay.dealer.accumulated_secret = dealer[me].accumulated_secret

\* node 1 has accepted the honest shares of two dealers, a fresh node 1
\* accepts the aggregated transcript, and node 0 accepts the same shares
C13_Witness ==
    /\ 1 \in Nodes
    /\ HonestSharesOnly(1)
    /\ Cardinality({accepted[1][k].participant_id : k \in 1 .. Len(accepted[1])}) = 2
    /\ dealer[1].accumulated_secret # 0
    /\ \E alphas \in Challenges :
          IsOk(ReceiveTranscriptAndDecrypt(1, NewDealer(1),
                  NewParticipants(num_participants), alphas, transcript[1]).result)
    /\ \E alpha \in Fr : FreshReplay(0, alpha, accepted[1]).ok


\* the call recorded in last' is a receive_transcript_and_decrypt whose
\* verification of the transcript failed
TranscriptVerificationFailed ==
    /\ last'.op = "receive_transcript_and_decrypt"
    /\ ~IsOk(last'.result)
    /\ last'.result # Panic
    /\ NodeReceiveTranscript(last'.instance, last'.msg)

\* C14: when the verification of a transcript fails,
\* receive_transcript_and_decrypt returns the error receive_transcript gave
\* and mutates nothing: accumulated_secret, every roster entry and the
\* aggregator's transcript are as before the call.
C14_FailedTranscriptMutatesNothing ==
    [][TranscriptVerificationFailed =>
          /\ UNCHANGED << dealer, participants, transcript, accepted, panicked >>
          /\ \E alphas \in Challenges :
                last'.result = ReceiveTranscript(alphas, last'.msg)]_vars

\* a node has been handed a transcript with contributions and a non-zero
\* seat for it, and the verification failed
C14_Witness ==
    /\ last.op = "receive_transcript_and_decrypt"
    /\ ~IsOk(last.result)
    /\ last.result # Panic
    /\ Ids(last.msg) # {}
    /\ last.instance + 1 <= Len(last.msg.pvss_share.y_i)
    /\ last.msg.pvss_share.y_i[last.instance + 1] # 0


\* the positions at which two sequences of equal length differ
ChangedAt(a, b) == {k \in 1 .. Len(a) : a[k] # b[k]}

\* the change of s into m is one that no challenge lets through: u_i_2, an
\* element of a_i, the first element of y_i, a BLS signature, or the response
\* r of a Schnorr signature
ResponseChanged(x, y) ==
    IF scheme = "BLS" THEN x # y
    ELSE x.v_g = y.v_g /\ x.r # y.r

AlwaysDetected(s, m) ==
    \/ m.pvss_share.u_i_2 # s.pvss_share.u_i_2
    \/ ChangedAt(s.pvss_share.a_i, m.pvss_share.a_i) # {}
    \/ 1 \in ChangedAt(s.pvss_share.y_i, m.pvss_share.y_i)
    \/ ResponseChanged(s.c_i_pok, m.c_i_pok)
    \/ ResponseChanged(s.signature_on_c_i, m.signature_on_c_i)

\* the change of s into m replaces the commitment v_g of a Schnorr signature
Replaced(s, m) ==
    /\ scheme = "Schnorr"
    /\ \/ s.c_i_pok.v_g # m.c_i_pok.v_g
       \/ s.signature_on_c_i.v_g # m.signature_on_c_i.v_g

\* the PoK and the signature of m satisfy the verification equation
ValidSignatures(m) ==
    /\ Verify("sig", PublicKeySig(m.participant_id), message_from_c_i(m.c_i),
              m.signature_on_c_i)
    /\ Verify("pok", m.c_i, message_from_c_i(m.c_i), m.c_i_pok)

C16_TranscriptVectorsFullLength ==
    \A r \in Instances :
        /\ Len(transcript[r].pvss_share.a_i) = num_participants
        /\ Len(transcript[r].pvss_share.y_i) = num_participants


\* the group sum, position by position, of the vectors sel(share) of the
\* shares of seq, over len positions
PointwiseSum(seq, len, sel(_)) ==
    [k \in 1 .. len |->
        FSum([j \in 1 .. Len(seq) |->
                 IF k <= Len(sel(seq[j])) THEN sel(seq[j])[k] ELSE 0], Len(seq))]

SelF(s) == s.pvss_share.f_i
SelA(s) == s.pvss_share.a_i
SelY(s) == s.pvss_share.y_i

\* e(sum of weight_i * c_i, u_1) = e(g, u_i_2) for the transcript t
SameRatio(t) ==
    Pairing(WeightedCommitment(t), U_1) = Pairing(G_G1, t.pvss_share.u_i_2)

\* the pvss_share of instance r is the sum of the accepted shares' pvss_share
IsPointwiseSum(r) ==
    LET seq == SharesOf(r) IN
    /\ transcript[r].pvss_share.u_i_2
         = FSum([j \in 1 .. Len(seq) |-> seq[j].pvss_share.u_i_2], Len(seq))
    /\ transcript[r].pvss_share.f_i = PointwiseSum(seq, degree, SelF)
    /\ transcript[r].pvss_share.a_i = PointwiseSum(seq, num_participants, SelA)
    /\ transcript[r].pvss_share.y_i = PointwiseSum(seq, num_participants, SelY)

\* C17: in every state an aggregator reaches through receive_share calls on
\* arbitrary shares, the transcript satisfies the same-ratio relation against
\* its weighted commitments, and its pvss_share is the pointwise group sum of
\* the pvss_share of every accepted share, counted once per acceptance.
C17_SameRatioAndPointwiseSum ==
    \A r \in active : SharesOf(r) # << >> =>
        /\ SameRatio(transcript[r])
        /\ IsPointwiseSum(r)


TerminalStates == {"Dealer", "DealerShared", "Verified"}

\* C18: a participant record in state Dealer, DealerShared or Verified, be it
\* a dealer's own record or a roster entry a node holds, is never moved to a
\* different state, except that share() moves the dealer's own record from
\* Dealer to DealerShared.
C18_TerminalStatesStay ==
    [][/\ \A r \in DOMAIN participants : \A id \in DOMAIN participants[r] :
             participants[r][id].state \in TerminalStates =>
                participants'[r][id].state = participants[r][id].state
       /\ \A i \in DOMAIN dealer :
             dealer[i].participant.state \in TerminalStates =>
                \/ dealer'[i].participant.state = dealer[i].participant.state
                \/ /\ dealer[i].participant.state = "Dealer"
                   /\ dealer'[i].participant.state = "DealerShared"
                   /\ \E seed \in Seeds : NodeShare(i, seed)]_vars


\* the ids a message is from: the participant_id of a share, the contribution
\* ids of a transcript
SendersOf(m) == IF IsShare(m) THEN {m.participant_id} ELSE Ids(m)

\* the ids node me has accepted a share or a transcript from, given its log
AcceptedFrom(log) == UNION {SendersOf(log[k]) : k \in 1 .. Len(log)}

\* C19: on a node whose roster starts in Initial, roster[p] is Verified
\* exactly when the node has accepted a share of p or a transcript with a
\* contribution of p; accepting a message changes no roster entry but those
\* of its senders; every id in the node's transcript is Verified.
C19_VerifiedIffAccepted ==
    [][\A me \in Nodes \cap active :
          /\ \A p \in Roster :
                participants'[me][p].state = "Verified"
                    <=> p \in AcceptedFrom(accepted'[me])
          /\ \A p \in Roster :
                (\A m \in {accepted'[me][k] : k \in Len(accepted[me]) + 1 .. Len(accepted'[me])} :
                     p \notin SendersOf(m))
                   => participants'[me][p] = participants[me][p]
          /\ \A id \in Ids(transcript'[me]) :
                id \in Roster /\ participants'[me][id].state = "Verified"]_vars


\* C20: a successful share() returns a share labelled with the dealer's own
\* id and moves the dealer's own record to DealerShared, and changes nothing
\* else of the node (transcript, accumulated_secret, roster) or of any other
\* node; a failing share() changes nothing at all.
C20_ShareFrame ==
    [][\A seed \in Seeds :
          (last'.op = "share" /\ NodeShareCall(last'.instance, seed)) =>
             LET me == last'.instance IN
             IF IsOk(last'.result)
             THEN /\ last'.msg.participant_id = dealer[me].participant.id
                  /\ dealer'[me].participant.state = "DealerShared"
                  /\ dealer' = [dealer EXCEPT ![me].participant.state = "DealerShared"]
                  /\ UNCHANGED << transcript, participants, accepted, panicked >>
             ELSE UNCHANGED << transcript, participants, accepted, panicked,
                               dealer, dealt >>]_vars

\* a node whose record was Dealer has dealt a share while another node has
\* not
C20_Witness ==
    /\ last.op = "share"
    /\ IsOk(last.result)
    /\ last.msg \in dealt
    /\ dealer[last.instance].participant.state = "DealerShared"
    /\ \E other \in Nodes : dealer[other].participant.state = "Dealer"

\* share() has failed: num_participants is not a power of two
ShareFailureReached ==
    /\ last.op = "share"
    /\ ~IsOk(last.result)
    /\ \A i \in Nodes : dealer[i].participant.state = "Dealer"


\* C21: across every receive_share call, accepted or rejected, an
\* aggregator's transcript keeps every contribution id it holds, no weight
\* decreases, and the c_i, c_i_pok and signature_on_c_i recorded for an id
\* stay as they were first recorded.
C21_TranscriptGrowsMonotonically ==
    [][\A r \in Instances : \A id \in Ids(transcript[r]) :
          /\ id \in Ids(transcript'[r])
          /\ transcript'[r].contributions[id].weight
                >= transcript[r].contributions[id].weight
          /\ transcript'[r].contributions[id].c_i = transcript[r].contributions[id].c_i
          /\ transcript'[r].contributions[id].c_i_pok
                = transcript[r].contributions[id].c_i_pok
          /\ transcript'[r].contributions[id].signature_on_c_i
                = transcript[r].contributions[id].signature_on_c_i]_vars

\* an aggregator that held the contribution of one dealer has accepted the
\* share of another
C21_Witness ==
    /\ last.op \in {"receive_share", "receive_share_and_decrypt"}
    /\ IsOk(last.inner)
    /\ Len(SharesOf(last.instance)) = 2
    /\ Cardinality(Ids(transcript[last.instance])) = 2


\* the entry of id in the result r of a.aggregate(b), by cases
EntryByCases(a, b, r, id) ==
    IF id \in Ids(a) /\ id \in Ids(b)
    THEN /\ id \in Ids(r)
         /\ r.contributions[id] =
               [c_i |-> a.contributions[id].c_i,
                weight |-> a.contributions[id].weight + b.contributions[id].weight,
                c_i_pok |-> a.contributions[id].c_i_pok,
                signature_on_c_i |-> a.contributions[id].signature_on_c_i]
    ELSE IF id \in Ids(a) THEN id \in Ids(r) /\ r.contributions[id] = a.contributions[id]
    ELSE IF id \in Ids(b) THEN id \in Ids(r) /\ r.contributions[id] = b.contributions[id]
    ELSE id \notin Ids(r)

\* C22 (as stated): for transcripts of equal configuration whose aggregate
\* succeeds, every id is combined by cases: in both, one entry with the sum
\* of the weights and self's PoK and signature; in exactly one, carried
\* through unchanged; in neither, omitted; and both inputs are left unchanged.
C22_AggregateByCasesEveryId ==
    [][\A i \in Slots, j \in Slots :
          (AggregateCall(i, j) /\ IsOk(last'.inner)) =>
             /\ \A id \in Ids(transcript[i]) \cup Ids(transcript[j]) \cup Ids(last'.result[2]) :
                   EntryByCases(transcript[i], transcript[j], last'.result[2], id)
             /\ UNCHANGED transcript]_vars

\* C22 (amended): the combination by cases holds for every id in
\* 0..num_participants-1; an id outside that range is omitted from the result
\* whichever input holds it; both inputs are left unchanged.
C22_AggregateByCasesRosterIds ==
    [][\A i \in Slots, j \in Slots :
          (AggregateCall(i, j) /\ IsOk(last'.inner)) =>
             /\ \A id \in 0 .. (transcript[i].num_participants - 1) :
                   EntryByCases(transcript[i], transcript[j], last'.result[2], id)
             /\ Ids(last'.result[2]) \subseteq 0 .. (transcript[i].num_participants - 1)
             /\ UNCHANGED transcript]_vars

\* an aggregate of a transcript holding a roster id with one holding the
\* same id and with one holding an id outside the roster has succeeded
C22_Witness ==
    /\ last.op = "aggregate"
    /\ IsOk(last.inner)
    /\ Ids(transcript[last.instance]) \cap Ids(last.msg) # {}
    /\ \E k \in Slots : /\ Ids(transcript[k]) # {}
                        /\ Ids(transcript[k]) \cap (0 .. (MaxN - 1)) = {}
                        /\ IsOk(Aggregate(transcript[last.instance], transcript[k]).result)
    /\ \E id \in Ids(last.result[2]) : last.result[2].contributions[id].weight >= 2


DifferentConfig(a, b) ==
    a.degree # b.degree \/ a.num_participants # b.num_participants

\* C23: aggregate fails with TranscriptDifferentConfig(self.degree,
\* other.degree, self.num_participants, other.num_participants) whenever the
\* degrees or the participant counts differ, also when the two transcripts
\* hold different commitments for an id.
C23_DifferentConfigFirst ==
    \A i \in Slots, j \in Slots :
        DifferentConfig(transcript[i], transcript[j]) =>
            Aggregate(transcript[i], transcript[j]).result
               = << "Err", "TranscriptDifferentConfig",
                    transcript[i].degree, transcript[j].degree,
                    transcript[i].num_participants, transcript[j].num_participants >>

\* aggregate has been called on two transcripts of different degree that
\* hold different commitments for the same id, and a pair that differs in
\* the participant count is at hand
C23_Witness ==
    /\ last.op = "aggregate"
    /\ transcript[last.instance].degree # last.msg.degree
    /\ \E id \in Ids(transcript[last.instance]) \cap Ids(last.msg) :
          transcript[last.instance].contributions[id].c_i # last.msg.contributions[id].c_i
    /\ last.result[2] = "TranscriptDifferentConfig"
    /\ \E k \in Slots : transcript[k].num_participants # last.msg.num_participants


\* the singleton transcript of the message m sent under the id
SingletonAs(m, id) == Singleton([m EXCEPT !.participant_id = id])

\* C24: every id in the contributions of an aggregator's transcript is a key
\* of its roster, in every reachable state; and the result of aggregate holds
\* exactly the ids of the two inputs that lie in 0..num_participants-1, while
\* its pvss_share is the sum of the pvss_share of both inputs in full.
C24_IdsAreRosterKeys ==
    \A r \in active :
        /\ Ids(transcript[r]) \subseteq DOMAIN participants[r]
        /\ \A m \in Messages, id \in 0 .. (num_participants + 1) :
              LET other == SingletonAs(m, id)
                  out == Aggregate(transcript[r], other)
              IN  IsOk(out.result) =>
                     /\ Ids(out.transcript)
                          = (Ids(transcript[r]) \cup {id}) \cap (0 .. (num_participants - 1))
                     /\ out.transcript.pvss_share
                          = PVSSShareAggregate(transcript[r].pvss_share, other.pvss_share)

\* an aggregator that holds a contribution aggregates with a transcript
\* whose only id is outside the roster
C24_Witness ==
    \E r \in active :
        /\ Ids(transcript[r]) # {}
        /\ last.instance = r
        /\ IsOk(last.inner)
        /\ \E m \in dealt :
              /\ IsOk(Aggregate(transcript[r], SingletonAs(m, num_participants)).result)
              /\ m.pvss_share.u_i_2 # 0


\* the polynomial the dealer draws from rng stream seed, and its value at x
DealerPolynomial(seed) == [k \in 1 .. degree + 1 |-> Rand(seed, k - 1)]

PolyEval(f, x) == FSum([k \in 1 .. Len(f) |-> FMul(f[k], FPow(x, k - 1))], Len(f))

\* the domain point of participant i
DomainPoint(i) == FPow(GroupGen(DomainSize(num_participants)), i)

\* the step is node me accepting, without panic, the share last'.msg that
\* node j dealt from rng stream seed
AcceptsHonestShare(me, j, seed) ==
    /\ last'.op = "receive_share_and_decrypt"
    /\ last'.instance = me
    /\ IsOk(last'.inner) /\ IsOk(last'.result)
    /\ IsOk(Share(j, seed).result)
    /\ Share(j, seed).share = last'.msg
    /\ NodeReceiveShare(me, last'.msg)

\* what C25 says of such a step
SeatAdded(me, j, seed) ==
    /\ dealer'[me].accumulated_secret
          = GAdd(dealer[me].accumulated_secret,
                 GMul(H_G2, PolyEval(DealerPolynomial(seed), DomainPoint(me))))
    /\ j = me =>
          dealer'[me].accumulated_secret
             = GAdd(dealer[me].accumulated_secret, SharePvss(me, seed).secrets.my_secret)
    /\ (num_participants = 1 /\ degree = 0 /\ accepted[me] = << >>) =>
          /\ Ids(transcript'[me]) = {j}
          /\ transcript'[me].contributions[j].weight = 1
          /\ dealer'[me].accumulated_secret = GMul(H_G2, Rand(seed, 0))

IsPowerOfTwo(n) == n >= 1 /\ NextPowerOfTwo(n) = n

\* C26: every node on which share() has succeeded, and every transcript an
\* aggregator holds, has degree < num_participants and num_participants a
\* power of two.
C26_DegreeBelowPowerOfTwoRoster ==
    /\ (last.op = "share" /\ IsOk(last.result)) =>
          degree < num_participants /\ IsPowerOfTwo(num_participants)
    /\ \A r \in Instances :
          /\ transcript[r].degree < transcript[r].num_participants
          /\ IsPowerOfTwo(transcript[r].num_participants)


\* C27: with a roster whose size is not a power of two, Node::share fails
\* with EvaluationDomainError, and so does pvss_share_verify, here on the
\* share a dealer of the zero polynomial would send.
C27_NotPowerOfTwoIsDomainError ==
    ~IsPowerOfTwo(num_participants) =>
        /\ last.op = "share" => last.result = Err("EvaluationDomainError")
        /\ \A alpha \in Fr :
              PvssShareVerify(alpha, 0,
                  [PVSSShareEmpty(degree, num_participants) EXCEPT
                      !.f_i = [k \in 1 .. degree |-> 0]])
                 = Err("EvaluationDomainError")


\* C28: share_verify, and so receive_share, on a share whose participant_id
\* is not a roster key fails with InvalidParticipantId(participant_id)
\* whatever the rest of the share contains, and the transcript stays as it is.
C28_UnknownParticipantFirst ==
    (last.op \in {"change", "share_verify"} /\ last.msg.participant_id \notin Roster) =>
        /\ last.op = "share_verify" =>
              last.result = ErrId("InvalidParticipantId", last.msg.participant_id)
        /\ \A alpha \in Fr :
              /\ ShareVerify(alpha, last.msg)
                    = ErrId("InvalidParticipantId", last.msg.participant_id)
              /\ LET out == ReceiveShare(transcript[Aggregator], alpha, last.msg)
                 IN  /\ out.result = ErrId("InvalidParticipantId", last.msg.participant_id)
                     /\ out.transcript = transcript[Aggregator]

\* share_verify has been called on a share sent under an unknown id whose
\* pvss_share is changed too, so that pvss_share_verify would fail on it
C28_Witness ==
    /\ last.op = "share_verify"
    /\ last.msg.participant_id = num_participants + 1
    /\ last.result = ErrId("InvalidParticipantId", num_participants + 1)
    /\ \E s \in dealt :
          /\ last.msg.pvss_share # s.pvss_share
          /\ \A alpha \in Fr :
                ~IsOk(PvssShareVerify(alpha, last.msg.c_i, last.msg.pvss_share))


\* every node's transcript holds all n contributions with weight 1 and every
\* roster entry of every node is Verified
RoundComplete ==
    \A me \in Nodes :
        /\ Ids(transcript[me]) = Roster
        /\ \A id \in Roster :
              /\ transcript[me].contributions[id].weight = 1
              /\ participants[me][id].state = "Verified"

C30_SignThenVerify ==
    last.op = "sign" =>
        /\ last.public_key = FromSk(last.role, last.sk)
        /\ last.verified = << Ok, Ok >>

\* two Schnorr signatures on the same secret and message, made with two
\* nonces, differ and both verify
C30_Witness ==
    /\ last.op = "sign"
    /\ scheme = "Schnorr"
    /\ last.sk # 0
    /\ last.nonces[1] # last.nonces[2]
    /\ last.signatures[1] # last.signatures[2]
    /\ last.verified = << Ok, Ok >>

\* a BLS signature under a key of G2 verifies
C30_WitnessBls ==
    /\ last.op = "sign"
    /\ scheme = "BLS"
    /\ last.role = "sig"
    /\ last.sk # 0
    /\ last.verified = << Ok, Ok >>


\* the challenge a Schnorr verifier derives for a message and a signature
SchnorrChallenge(role, message, signature) ==
    HashToField(message \o Serialize(signature.v_g) \o Serialize(GPublicKey(role)))

\* C31 (as stated): for BLS and Schnorr, verify fails when a signature made
\* with sk on message m is checked against a different message or against the
\* public key of a different secret key.
C31_WrongKeyOrMessageFails ==
    last.op \in {"wrong_pk", "wrong_message"} => last.result = SignatureError

\* C31 (amended): verify fails under the public key of a different secret
\* key; it fails on a different message when sk is not zero and (Schnorr) the
\* different message changes the challenge.  With sk = 0 the signature
\* verifies on every message.
C31_WrongKeyOrMessage ==
    /\ last.op = "wrong_pk" => last.result = SignatureError
    /\ last.op = "wrong_message" =>
          (last.result = SignatureError
              <=> /\ last.sk # 0
                  /\ scheme = "Schnorr" =>
                        SchnorrChallenge(last.role, last.wrong_message, last.signature)
                            # SchnorrChallenge(last.role, last.message, last.signature))

\* a Schnorr signature of a non-zero secret is rejected on another message
C31_Witness ==
    /\ last.op = "wrong_message"
    /\ scheme = "Schnorr"
    /\ last.sk # 0
    /\ last.result = SignatureError

\* a BLS signature is rejected under the key of another secret
C31_WitnessWrongPk ==
    /\ last.op = "wrong_pk"
    /\ scheme = "BLS"
    /\ last.result = SignatureError


\* the batch of the last call has lists of one length
EqualLengths ==
    /\ last.op = "batch_verify"
    /\ Len(last.public_keys) = Len(last.messages)
    /\ Len(last.public_keys) = Len(last.signatures)

\* entry i of the last batch verifies on its own
VerifiesAlone(i) ==
    Verify(last.role, last.public_keys[i], last.messages[i], last.signatures[i])

FailingEntries == {i \in 1 .. Len(last.public_keys) : ~VerifiesAlone(i)}

\* the challenges under which the last batch is accepted
AcceptingChallenges ==
    {a \in Fr : IsOk(BatchVerify(last.role, a, last.public_keys, last.messages,
                                 last.signatures))}

\* C32 (as stated): on equal-length lists batch_verify succeeds when every
\* triple verifies individually and fails when at least one triple does not,
\* whatever its position.
C32_BatchAgreesWithVerify ==
    EqualLengths => (IsOk(last.result) <=> FailingEntries = {})

\* C32 (amended): on equal-length lists batch_verify succeeds when every
\* triple verifies individually.  When some triple does not verify, it fails
\* for all but at most k - 1 values of the challenge alpha (k the length of the
\* batch); with one failing triple it fails for every alpha when that triple
\* is the first, and for every alpha other than 0 when it is a later one.
\* With alpha = 0 only the first triple is examined.
C32_BatchAgreesForChallenge ==
    EqualLengths =>
        /\ FailingEntries = {} => IsOk(last.result)
        /\ FailingEntries # {} =>
              Cardinality(AcceptingChallenges) <= Len(last.public_keys) - 1
        /\ FailingEntries = {1} => ~IsOk(last.result)
        /\ \A i \in 2 .. Len(last.public_keys) :
              FailingEntries = {i} => (IsOk(last.result) <=> last.alpha = 0)
        /\ (last.alpha = 0 /\ Len(last.public_keys) >= 1) =>
              (IsOk(last.result) <=> VerifiesAlone(1))

\* a batch of two whose second triple alone does not verify is rejected
C32_Witness ==
    /\ EqualLengths
    /\ Len(last.public_keys) = 2
    /\ FailingEntries = {2}
    /\ last.alpha # 0
    /\ ~IsOk(last.result)

\* a batch of two valid triples is accepted
C32_WitnessValid ==
    /\ EqualLengths
    /\ Len(last.public_keys) = 2
    /\ FailingEntries = {}
    /\ last.signatures[1] # last.signatures[2]
    /\ IsOk(last.result)

\* C33: batch_verify called with lists of different lengths fails with
\* BatchVerification(len(public_keys), len(messages), len(signatures)),
\* whatever the lists hold.
C33_DifferentLengths ==
    (last.op = "batch_verify" /\ ~EqualLengths) =>
        last.result = << "Err", "BatchVerification", Len(last.public_keys),
                         Len(last.messages), Len(last.signatures) >>

\* two keys and two messages with one signature that does not verify
C33_Witness ==
    /\ last.op = "batch_verify"
    /\ Len(last.public_keys) = 2
    /\ Len(last.messages) = 1
    /\ Len(last.signatures) = 1
    /\ ~VerifiesAlone(1)
    /\ last.result = << "Err", "BatchVerification", 2, 1, 1 >>


\* the sum of the secrets of the last aggregation, without the i-th
SumOfSecretsBut(i) ==
    FSum([j \in 1 .. Len(last.sks) |-> IF j = i THEN 0 ELSE last.sks[j]],
         Len(last.sks))

\* C34 (as stated): for BLS with the keys in either group, for signatures by
\* several keys on one message, the aggregated signature verifies under the
\* aggregated key, fails under every single one of the keys and fails under
\* the aggregated key on a different message.
C34_AggregatedSigAnyKeys ==
    last.op = "aggregated_sig" =>
        /\ IsOk(last.result)
        /\ \A i \in 1 .. Len(last.sks) : ~IsOk(last.single[i])
        /\ ~IsOk(last.wrong)

\* C34 (amended): the aggregated signature verifies under the aggregated key;
\* it fails under a single key exactly when the other secrets do not sum to
\* zero, and under the aggregated key on a different message exactly when all
\* the secrets do not sum to zero.
C34_AggregatedSig ==
    last.op = "aggregated_sig" =>
        /\ IsOk(last.result)
        /\ \A i \in 1 .. Len(last.sks) :
              ~IsOk(last.single[i]) <=> SumOfSecretsBut(i) # 0
        /\ ~IsOk(last.wrong) <=> SumOfSecretsBut(0) # 0

\* three keys whose aggregated signature is accepted under the aggregated key
\* and rejected under every single key and on the other message
C34_Witness ==
    /\ last.op = "aggregated_sig"
    /\ Len(last.sks) = 3
    /\ last.role = "sig"
    /\ IsOk(last.result)
    /\ \A i \in 1 .. 3 : ~IsOk(last.single[i])
    /\ ~IsOk(last.wrong)


C35_FiLengths ==
    /\ \A s \in dealt : Len(s.pvss_share.f_i) = degree
    /\ \A r \in DOMAIN transcript :
          IF Ids(transcript[r]) = {}
          THEN Len(transcript[r].pvss_share.f_i) = degree + 1
          ELSE Len(transcript[r].pvss_share.f_i) <= degree


\* the same-ratio equation of a transcript: e(sum(weight_i * c_i), u_1) =
\* e(g, pvss_share.u_i_2)
WeightsBound(t) ==
    Pairing(WeightedCommitment(t), U_1) = Pairing(G_G1, t.pvss_share.u_i_2)

DecryptedSeat(me, t) ==
    GMul(t.pvss_share.y_i[me + 1], FInv(dealer[me].private_key_sig))

\* C38: receive_transcript never changes the aggregator's transcript, also
\* when it succeeds: after receive_transcript_and_decrypt the node's
\* transcript is what it was before, a call that fails changes nothing, and
\* every call that succeeds, a repeated one included, adds the decrypted seat
\* to accumulated_secret.
C38_TranscriptNotFolded ==
    [][(\E me \in Nodes, r \in Nodes : RoundReceiveTranscript(me, r)) =>
          /\ transcript' = transcript
          /\ IsOk(last'.result) =>
                dealer'[last'.instance].accumulated_secret =
                    GAdd(dealer[last'.instance].accumulated_secret,
                         DecryptedSeat(last'.instance, last'.msg))
          /\ ~IsOk(last'.result) =>
                /\ dealer' = dealer
                /\ participants' = participants]_vars

\* a node has accepted the transcript of a complete round of two twice: its
\* own transcript still has every weight 1, and the seat was added both times
C38_Witness ==
    /\ last.op = "receive_transcript_and_decrypt"
    /\ IsOk(last.result)
    /\ Ids(last.msg) = {0, 1}
    /\ Cardinality({k \in 1 .. Len(accepted[last.instance]) :
                       accepted[last.instance][k] = last.msg}) = 2
    /\ \A id \in Ids(transcript[last.instance]) :
          transcript[last.instance].contributions[id].weight = 1
    /\ DecryptedSeat(last.instance, last.msg) # 0
    /\ dealer[last.instance].accumulated_secret =
          GMul(DecryptedSeat(last.instance, last.msg), 3)


\* node me has made share() and receive_share_and_decrypt calls only
OnlyShares(me) == \A k \in 1 .. Len(accepted[me]) : ~IsTranscript(accepted[me][k])

\* accumulated_secret of node me is the decryption of the seat of me in the
\* transcript that me holds
SecretMatchesTranscript(me) ==
    /\ me + 1 <= Len(transcript[me].pvss_share.y_i)
    /\ dealer[me].accumulated_secret = DecryptedSeat(me, transcript[me])

\* C39: on a node that starts with accumulated_secret = identity and an empty
\* transcript, after any sequence of share() and receive_share_and_decrypt
\* calls (valid, duplicate and invalid shares in any order) accumulated_secret
\* equals sk_sig^{-1} * transcript.pvss_share.y_i[my_id].
C39_SecretMatchesTranscript ==
    \A me \in Nodes : OnlyShares(me) => SecretMatchesTranscript(me)

\* the same on the nodes on which no call has panicked
C39_SecretMatchesUnlessPanicked ==
    \A me \in Nodes :
        (OnlyShares(me) /\ me \notin panicked) => SecretMatchesTranscript(me)

\* ---------------------------------------------------------------------- C36
C36_AggregatedCall == last # NoCall /\ last.op = "algebraic_aggregated_sig"
C36_KeysCall == last # NoCall /\ last.op = "proven_public_key_aggregate"
\* alpha + beta * g_2_g2 of the keypair at position i: minus the pi_1_g2 of
\* its key proof
C36_Blinding(i) ==
    FAdd(last.keypairs[i].alpha,
         FMul(last.keypairs[i].beta, last.keypairs[i].srs.g_2_g2))
C36_SrsDifferentWhenDiffers ==
    C36_KeysCall =>
        (last.result = Err("SRSDifferent")
            <=> \E i \in 1..2 : last.keypairs[i].srs # last.srs)

\* C36 as stated: the aggregated signature verifies under the aggregated key,
\* fails under either single proven key, fails on a different message, and
\* ProvenPublicKey::aggregate fails with SRSDifferent when a key's SRS differs
\* from the given one
C36_AggregatedSigAnyDraws ==
    /\ C36_AggregatedCall =>
          /\ IsOk(last.aggregated_pk.result)
          /\ IsOk(last.result.result)
          /\ \A i \in 1..2 : ~IsOk(last.single[i].result)
          /\ ~IsOk(last.wrong.result)
    /\ C36_SrsDifferentWhenDiffers

\* C36: two proven keys under one SRS and their signatures on one message
\* aggregate to a key that passes ProvenPublicKey::verify and a signature on
\* which verify_and_derive succeeds and derives e(H(message), sk1 + sk2); the
\* aggregated signature fails under a single proven key with Eq2 exactly when
\* the other keypair's alpha + beta * g_2_g2 is not zero, and under the
\* aggregated key on a different message exactly when the sum of the two is
\* not zero; ProvenPublicKey::aggregate fails with SRSDifferent exactly when a
\* key's SRS differs from the given SRS
C36_AggregatedSig ==
    /\ C36_AggregatedCall =>
          /\ IsOk(last.aggregated_pk.result)
          /\ IsOk(ProvenPublicKeyVerify(last.aggregated_pk.key))
          /\ IsOk(last.result.result)
          /\ last.result.derived =
                {<< last.message, FAdd(last.keypairs[1].private.sk,
                                       last.keypairs[2].private.sk) >>}
                \ {<< last.message, 0 >>}
          /\ \A i \in 1..2 :
                /\ IsOk(last.single[i].result) <=> C36_Blinding(3 - i) = 0
                /\ ~IsOk(last.single[i].result) =>
                      last.single[i].result = ErrId("AlgebraicVerifyProof", "Eq2")
          /\ IsOk(last.wrong.result)
                <=> FAdd(C36_Blinding(1), C36_Blinding(2)) = 0
    /\ C36_SrsDifferentWhenDiffers

\* a run of the three tests with draws as the tests make them: every check of
\* the claim comes out as stated
C36_Witness ==
    /\ C36_AggregatedCall
    /\ IsOk(last.result.result)
    /\ last.result.derived # {}
    /\ \A i \in 1..2 : C36_Blinding(i) # 0 /\ ~IsOk(last.single[i].result)
    /\ ~IsOk(last.wrong.result)

C36_WitnessSrs ==
    /\ C36_KeysCall
    /\ last.keypairs[1].srs = last.srs
    /\ last.keypairs[2].srs # last.srs
    /\ last.result = Err("SRSDifferent")
====
